---------------------------- MODULE Spec2Model ----------------------------
(***************************************************************************)
(* Delegated Account Recovery reference implementation: the token codec,   *)
(* the signer/verifier and countersigned-token validation of the           *)
(* JavaScript SDK (sdk/js-src/index.js) and of the Java SDK                *)
(* (RecoveryToken.java, CountersignedRecoveryToken.java).                  *)
(*                                                                         *)
(* Buffers and byte arrays are sequences of naturals 0..255 (JavaScript    *)
(* offsets are 0-based, sequences 1-based).  Strings are sequences of      *)
(* character codes.  A nullable reference is a sequence of length 0 (null) *)
(* or 1 (the value).  The serialized token is modelled after base64        *)
(* decoding, i.e. as the Buffer / byte[] the parsers read.                 *)
(*                                                                         *)
(* Cryptography is idealised: SHA-256 is an injective digest and an ECDSA  *)
(* signature verifies under exactly the public key of the private key that *)
(* made it, over exactly the signed message.                               *)
(***************************************************************************)
EXTENDS Integers, Sequences, FiniteSets, TLC

(***************************************************************************)
(* Bounds of the model.                                                    *)
(***************************************************************************)
\* longest public-key list handed to a verification
MaxKeys == 2
\* longest data / binding field of a token
MaxPayload == 1

(***************************************************************************)
(* Program constants.                                                      *)
(***************************************************************************)
VERSION == 0
TYPE_RECOVERY_TOKEN == 0
TYPE_COUNTERSIGNED_TOKEN == 1
STATUS_REQUESTED_FLAG == 1
\* id.length !== 16
ID_LENGTH == 16
\* privateKey === null
NoKey == 0
\* the largest value writeUInt16BE accepts and putChar keeps
UINT16_MAX == 65535
\* the DER SEQUENCE tag that opens an ECDSA signature
DER_SEQUENCE == 48
\* the replacement character Java's US-ASCII decoder yields for a byte >= 0x80
REPLACEMENT_CHAR == 65533

Min(a, b) == IF a <= b THEN a ELSE b
Max(a, b) == IF a >= b THEN a ELSE b
Abs(x) == IF x < 0 THEN -x ELSE x

\* nullable references
Null == << >>
Some(v) == << v >>
IsNull(o) == Len(o) = 0
Value(o) == o[1]

(***************************************************************************)
(* Node.js Buffer primitives.                                              *)
(***************************************************************************)
\* buf.slice(start, end): both ends are clamped to the buffer, never throws
Slice(buf, start, end) ==
    LET s == Min(start, Len(buf))
        e == Min(end, Len(buf))
    IN  IF e <= s THEN << >> ELSE SubSeq(buf, s + 1, e)

\* buf.readUInt8(offset) is defined when the byte is inside the buffer,
\* otherwise a RangeError is thrown
CanReadUInt8(buf, offset) == offset + 1 <= Len(buf)
ReadUInt8(buf, offset) == buf[offset + 1]

\* buf.readUInt16BE(offset), big-endian
CanReadUInt16BE(buf, offset) == offset + 2 <= Len(buf)
ReadUInt16BE(buf, offset) == buf[offset + 1] * 256 + buf[offset + 2]

\* buf.writeUInt16BE(value): the two bytes written
UInt16BE(n) == << (n \div 256) % 256, n % 256 >>

\* buf.toString('ascii'): the highest bit of each byte is unset
AsciiDecodeJS(bytes) == [i \in 1..Len(bytes) |-> bytes[i] % 128]

\* new Buffer(string, 'ascii'): the low byte of each character code
AsciiEncodeJS(str) == [i \in 1..Len(str) |-> str[i] % 256]

(***************************************************************************)
(* Java array and charset primitives.                                      *)
(***************************************************************************)
\* Arrays.copyOfRange(a, from, to), defined when 0 <= from <= a.length and
\* from <= to; the result is padded with zeros when to > a.length
CanCopyOfRange(a, from, to) == from <= Len(a) /\ from <= to
CopyOfRange(a, from, to) ==
    [i \in 1..(to - from) |-> IF from + i <= Len(a) THEN a[from + i] ELSE 0]

\* new String(bytes, "US-ASCII"): a byte >= 0x80 decodes to U+FFFD
AsciiDecodeJava(bytes) ==
    [i \in 1..Len(bytes) |-> IF bytes[i] < 128 THEN bytes[i] ELSE REPLACEMENT_CHAR]

\* string.getBytes(US_ASCII): an unmappable character encodes as '?'
AsciiEncodeJava(str) == [i \in 1..Len(str) |-> IF str[i] < 128 THEN str[i] ELSE 63]

(***************************************************************************)
(* Origin grammar                                                          *)
(*   ^https:\/\/([a-z0-9-]{1,63}\.)+([a-z]{2,63})(:[\d]+)?$                *)
(* ':' and '.' are in no character class of the host, so the match is      *)
(* unique: the port starts at the first ':', the TLD after the last '.'.   *)
(***************************************************************************)
IsLower(c) == c >= 97 /\ c <= 122
IsDigit(c) == c >= 48 /\ c <= 57
IsLabelChar(c) == IsLower(c) \/ IsDigit(c) \/ c = 45

\* "https://"
HttpsScheme == << 104, 116, 116, 112, 115, 58, 47, 47 >>

FirstIndexOf(s, c) ==
    IF \E i \in 1..Len(s) : s[i] = c
    THEN CHOOSE i \in 1..Len(s) : s[i] = c /\ \A j \in 1..(i - 1) : s[j] # c
    ELSE 0

LastIndexOf(s, c) ==
    IF \E i \in 1..Len(s) : s[i] = c
    THEN CHOOSE i \in 1..Len(s) : s[i] = c /\ \A j \in (i + 1)..Len(s) : s[j] # c
    ELSE 0

\* ([a-z0-9-]{1,63}\.)+ against the whole of s
MatchesLabels(s) ==
    /\ Len(s) >= 2
    /\ s[Len(s)] = 46
    /\ s[1] # 46
    /\ \A i \in 1..Len(s) : s[i] = 46 \/ IsLabelChar(s[i])
    /\ \A i \in 2..Len(s) : s[i] = 46 => s[i - 1] # 46
    /\ \A i \in 1..Len(s) : i + 63 <= Len(s) => \E j \in i..(i + 63) : s[j] = 46

\* ([a-z]{2,63}) against the whole of s
MatchesTld(s) ==
    /\ Len(s) >= 2
    /\ Len(s) <= 63
    /\ \A i \in 1..Len(s) : IsLower(s[i])

\* (:[\d]+)? against the whole of s
MatchesPort(s) ==
    \/ Len(s) = 0
    \/ /\ Len(s) >= 2
       /\ s[1] = 58
       /\ \A i \in 2..Len(s) : IsDigit(s[i])

originRegex(s) ==
    /\ Len(s) > Len(HttpsScheme)
    /\ SubSeq(s, 1, Len(HttpsScheme)) = HttpsScheme
    /\ LET rest == SubSeq(s, Len(HttpsScheme) + 1, Len(s))
           colon == FirstIndexOf(rest, 58)
           host == IF colon = 0 THEN rest ELSE SubSeq(rest, 1, colon - 1)
           port == IF colon = 0 THEN << >> ELSE SubSeq(rest, colon, Len(rest))
           dot == LastIndexOf(host, 46)
       IN  /\ dot > 0
           /\ MatchesLabels(SubSeq(host, 1, dot))
           /\ MatchesTld(SubSeq(host, dot + 1, Len(host)))
           /\ MatchesPort(port)

\* the line terminators of java.util.regex: \n, \r, U+0085, U+2028, U+2029
LineTerminators == {10, 13, 133, 8232, 8233}

\* $ of java.util.regex without MULTILINE, at position end of s: the end of
\* the input, or just before a line terminator that ends the input
javaDollar(s, end) ==
    \/ end = Len(s)
    \/ end = Len(s) - 1 /\ s[Len(s)] \in LineTerminators
    \/ end = Len(s) - 2 /\ s[Len(s) - 1] = 13 /\ s[Len(s)] = 10

\* a Matcher.find() in place of matches(): the match may end anywhere
javaMatches_Find(s, end) == TRUE

\* Matcher.matches(): the match has to end at the end of the region
javaMatches(s, end) == end = Len(s)

\* a validateOrigin that never throws
validateOrigin_AcceptsAll(origin) == TRUE

\* DelegatedRecoveryUtils.validateOrigin: ORIGIN_REGEX.matcher(origin).matches(),
\* the pattern being that of the JavaScript SDK with non-capturing groups
validateOrigin(origin) ==
    \E end \in 0..Len(origin) :
        /\ javaDollar(origin, end)
        /\ javaMatches(origin, end)
        /\ originRegex(SubSeq(origin, 1, end))

(***************************************************************************)
(* Token layout (RecoveryToken constructor): the bytes that are signed.    *)
(***************************************************************************)
serialize(version, type, id, options, issuerBuf, audienceBuf, issuedTimeBuf, data, binding) ==
    << version, type >> \o id \o << options >>
        \o UInt16BE(Len(issuerBuf)) \o issuerBuf
        \o UInt16BE(Len(audienceBuf)) \o audienceBuf
        \o UInt16BE(Len(issuedTimeBuf)) \o issuedTimeBuf
        \o UInt16BE(Len(data)) \o data
        \o UInt16BE(Len(binding)) \o binding


(***************************************************************************)
(* Time.  Instants are seconds of the day 2017-01-31 (UTC); the formatters *)
(* and the parser below are those of the code restricted to that day.      *)
(***************************************************************************)
TwoDigits(n) == << 48 + ((n \div 10) % 10), 48 + (n % 10) >>

\* "2017-01-31T"
DatePrefix == << 50, 48, 49, 55, 45, 48, 49, 45, 51, 49, 84 >>

ClockText(t) ==
    TwoDigits(t \div 3600) \o << 58 >> \o TwoDigits((t \div 60) % 60)
        \o << 58 >> \o TwoDigits(t % 60)

\* Date.prototype.toISOString: YYYY-MM-DDTHH:mm:ss.sssZ
toISOString(t) == DatePrefix \o ClockText(t) \o << 46, 48, 48, 48, 90 >>

\* DelegatedRecoveryUtils.nowISO8601: yyyy-MM-dd'T'HH:mm:ssXXX in UTC, where
\* XXX prints a zero offset as "Z"
nowISO8601(t) == DatePrefix \o ClockText(t) \o << 90 >>

\* DelegatedRecoveryUtils.fromISO8601: SimpleDateFormat.parse reads a prefix
\* of the text and throws ParseException when the prefix does not match.
\* Null stands for the ParseException, Some(t) for the parsed instant.
fromISO8601(str) ==
    LET digitAt(i) == str[i] - 48
        shape == /\ Len(str) >= 20
                 /\ SubSeq(str, 1, 11) = DatePrefix
                 /\ \A i \in {12, 13, 15, 16, 18, 19} : IsDigit(str[i])
                 /\ str[14] = 58
                 /\ str[17] = 58
                 /\ str[20] = 90
    IN  IF shape
        THEN Some((digitAt(12) * 10 + digitAt(13)) * 3600
                  + (digitAt(15) * 10 + digitAt(16)) * 60
                  + digitAt(18) * 10 + digitAt(19))
        ELSE Null

(***************************************************************************)
(* JavaScript numbers as far as the clock-skew test needs them: a value or *)
(* NaN.  undefined is Null.                                                *)
(***************************************************************************)
NaN == [nan |-> TRUE, v |-> 0]
Num(n) == [nan |-> FALSE, v |-> n]
\* a - b: undefined converts to NaN
JsMinus(a, b) == IF IsNull(a) \/ IsNull(b) THEN NaN ELSE Num(Value(a) - Value(b))
\* Math.abs
JsAbs(x) == IF x.nan THEN NaN ELSE Num(Abs(x.v))
\* x > n: every comparison with NaN is false
JsGreater(x, n) == ~x.nan /\ x.v > n
\* date.value: a Date object has no property named value
DateValueProperty(date) == Null

(***************************************************************************)
(* Keys and ECDSA (idealised).  Private keys are 1, 2, ...; a signature is *)
(* the DER SEQUENCE tag, the signer and the digest of the message.         *)
(***************************************************************************)
PubOf(privateKey) == 100 + privateKey
Sha256(message) == message
EcdsaSign(privateKey, message) == << DER_SEQUENCE, privateKey >> \o Sha256(message)
WellFormedDER(sig) == Len(sig) >= 2 /\ sig[1] = DER_SEQUENCE
EcdsaVerify(publicKey, message, sig) ==
    /\ WellFormedDER(sig)
    /\ publicKey = PubOf(sig[2])
    /\ SubSeq(sig, 3, Len(sig)) = Sha256(message)

\* crypto.createSign('sha256').update(raw).sign(pem)
jsSign(privateKey, raw) == EcdsaSign(privateKey, raw)

\* variant of jsVerify: the digest leaves out the last byte of the message
jsVerify_SkipsLastByte(publicKey, raw, sig) ==
    /\ Len(raw) >= 1
    /\ Len(sig) >= 1
    /\ EcdsaVerify(publicKey, SubSeq(raw, 1, Len(raw) - 1), SubSeq(sig, 1, Len(sig) - 1))

\* crypto.createVerify('sha256').update(raw).verify(pem, sig): a signature
\* that does not decode is reported as false
jsVerify(publicKey, raw, sig) == EcdsaVerify(publicKey, raw, sig)

(***************************************************************************)
(* sdk/js-src/index.js                                                     *)
(***************************************************************************)
\* property lookup: undefined (Null) when the object has no such property
GetProperty(obj, name) == IF name \in DOMAIN obj THEN Some(obj[name]) ELSE Null

\* RecoveryToken.deserialize of a Buffer; ok = FALSE when a read throws
\* RangeError (slice never throws)
deserialize(serialized) ==
    LET issuerAt == 19
        issuerLength == ReadUInt16BE(serialized, issuerAt)
        audienceAt == issuerAt + 2 + issuerLength
        audienceLength == ReadUInt16BE(serialized, audienceAt)
        issuedTimeAt == audienceAt + 2 + audienceLength
        issuedTimeLength == ReadUInt16BE(serialized, issuedTimeAt)
        dataAt == issuedTimeAt + 2 + issuedTimeLength
        dataLength == ReadUInt16BE(serialized, dataAt)
        bindingAt == dataAt + 2 + dataLength
        bindingLength == ReadUInt16BE(serialized, bindingAt)
        offset == bindingAt + 2 + bindingLength
    IN  IF /\ CanReadUInt8(serialized, 0)
           /\ CanReadUInt8(serialized, 1)
           /\ CanReadUInt8(serialized, 18)
           /\ CanReadUInt16BE(serialized, issuerAt)
           /\ CanReadUInt16BE(serialized, audienceAt)
           /\ CanReadUInt16BE(serialized, issuedTimeAt)
           /\ CanReadUInt16BE(serialized, dataAt)
           /\ CanReadUInt16BE(serialized, bindingAt)
        THEN [ok |-> TRUE,
              version |-> ReadUInt8(serialized, 0),
              type |-> ReadUInt8(serialized, 1),
              id |-> Slice(serialized, 2, 18),
              options |-> ReadUInt8(serialized, 18),
              issuer |-> AsciiDecodeJS(Slice(serialized, issuerAt + 2, audienceAt)),
              audience |-> AsciiDecodeJS(Slice(serialized, audienceAt + 2, issuedTimeAt)),
              issuedTime |-> AsciiDecodeJS(Slice(serialized, issuedTimeAt + 2, dataAt)),
              data |-> Slice(serialized, dataAt + 2, bindingAt),
              binding |-> Slice(serialized, bindingAt + 2, offset),
              raw |-> Slice(serialized, 0, offset),
              signatureIndex |-> offset,
              signature |-> Slice(serialized, offset, Len(serialized)),
              encoded |-> serialized]
        ELSE [ok |-> FALSE]

\* RecoveryToken constructor.  privateKey = NoKey is null; data and binding
\* are nullable; an empty issuedTime is falsy and replaced by the current
\* time.  ok = FALSE with err when the constructor throws.
RecoveryTokenNew(privateKey, id, options, issuer, audience, issuedTime, data, binding, signature, now) ==
    LET thisIssuedTime == IF Len(issuedTime) = 0 THEN toISOString(now) ELSE issuedTime
        raw == serialize(VERSION, TYPE_RECOVERY_TOKEN, id, options,
                         AsciiEncodeJS(issuer), AsciiEncodeJS(audience),
                         AsciiEncodeJS(thisIssuedTime), Value(data), Value(binding))
        thisSignature == IF privateKey = NoKey THEN signature ELSE jsSign(privateKey, raw)
    IN  IF ~originRegex(issuer) THEN [ok |-> FALSE, err |-> "malformed issuer"]
        ELSE IF ~originRegex(audience) THEN [ok |-> FALSE, err |-> "malformed audience"]
        ELSE IF Len(id) # ID_LENGTH THEN [ok |-> FALSE, err |-> "malformed id"]
        \* data.length / binding.length of null
        ELSE IF IsNull(data) \/ IsNull(binding) THEN [ok |-> FALSE, err |-> "TypeError"]
        \* writeUInt16BE of a value that is no uint16
        ELSE IF \/ Len(issuer) > UINT16_MAX
                \/ Len(audience) > UINT16_MAX
                \/ Len(thisIssuedTime) > UINT16_MAX
                \/ Len(Value(data)) > UINT16_MAX
                \/ Len(Value(binding)) > UINT16_MAX
             THEN [ok |-> FALSE, err |-> "RangeError"]
        ELSE [ok |-> TRUE, err |-> "",
              version |-> VERSION,
              type |-> TYPE_RECOVERY_TOKEN,
              id |-> id,
              options |-> options,
              issuer |-> issuer,
              audience |-> audience,
              issuedTime |-> thisIssuedTime,
              data |-> Value(data),
              binding |-> Value(binding),
              raw |-> raw,
              signature |-> thisSignature,
              encoded |-> raw \o thisSignature]


\* variant of the loop: the result after the last key is true
RECURSIVE isSignatureValidLoop_DefaultsToTrue(_, _, _, _)
isSignatureValidLoop_DefaultsToTrue(keys, raw, sig, i) ==
    IF i > Len(keys) THEN [value |-> TRUE, tried |-> Len(keys)]
    ELSE IF EcdsaVerify(keys[i], raw, sig) THEN [value |-> TRUE, tried |-> i]
    ELSE isSignatureValidLoop_DefaultsToTrue(keys, raw, sig, i + 1)

\* variant of the loop: the result of the first key is returned
isSignatureValidLoop_FirstKeyOnly(keys, raw, sig, i) ==
    IF i > Len(keys) THEN [value |-> FALSE, tried |-> Len(keys)]
    ELSE [value |-> EcdsaVerify(keys[i], raw, sig), tried |-> i]

\* the for loop of RecoveryToken.isSignatureValid from key number i on:
\* value is the result, tried the number of keys verify() was called with
RECURSIVE isSignatureValidLoop(_, _, _, _)
isSignatureValidLoop(keys, raw, sig, i) ==
    IF i > Len(keys) THEN [value |-> FALSE, tried |-> Len(keys)]
    ELSE IF jsVerify(keys[i], raw, sig) THEN [value |-> TRUE, tried |-> i]
    ELSE isSignatureValidLoop(keys, raw, sig, i + 1)

\* RecoveryToken.isSignatureValid(serialized, keys, signatureOffset) of a
\* Buffer; signatureOffset = Null is the default null.  slice(0, undefined)
\* ends at the end of the buffer and slice(undefined) starts at 0.
isSignatureValid(serialized, keys, signatureOffset) ==
    LET fields == deserialize(serialized)
        offset == IF IsNull(signatureOffset)
                  THEN GetProperty(fields, "signatureOffset")
                  ELSE signatureOffset
        raw == IF IsNull(offset) THEN serialized
               ELSE Slice(serialized, 0, Value(offset))
        sig == IF IsNull(offset) THEN serialized
               ELSE Slice(serialized, Value(offset), Len(serialized))
        loop == isSignatureValidLoop(keys, raw, sig, 1)
    IN  IF IsNull(signatureOffset) /\ ~fields.ok
        THEN [threw |-> TRUE, value |-> FALSE, tried |-> 0]
        ELSE [threw |-> FALSE, value |-> loop.value, tried |-> loop.tried]

\* CountersignedToken constructor: super(null, ...) and then the type
CountersignedTokenNew(id, options, issuer, audience, issuedTime, data, binding, signature, now) ==
    LET super == RecoveryTokenNew(NoKey, id, options, issuer, audience, issuedTime,
                                  Some(data), Some(binding), signature, now)
    IN  IF super.ok THEN [super EXCEPT !.type = TYPE_COUNTERSIGNED_TOKEN] ELSE super

\* new Date(text): the instant of an ISO-8601 text with or without
\* milliseconds, Null for an Invalid Date
NewDate(text) ==
    IF Len(text) = 24 /\ SubSeq(text, 20, 24) = << 46, 48, 48, 48, 90 >>
    THEN fromISO8601(SubSeq(text, 1, 19) \o << 90 >>)
    ELSE IF Len(text) = 20 THEN fromISO8601(text)
    ELSE Null

\* the clock-skew test of CountersignedToken.fromSerialized:
\* Math.abs(issuedTime.value - new Date().value) > (allowedClockSkew * 1000)
jsOutsideClockSkew(issuedTimeText, now, allowedClockSkew) ==
    LET issuedTime == NewDate(issuedTimeText)
        today == Some(now)
    IN  JsGreater(JsAbs(JsMinus(DateValueProperty(issuedTime), DateValueProperty(today))),
                  allowedClockSkew * 1000)

\* fields.binding.equals(binding): TypeError when binding is no Buffer
jsBindingEquals(fieldsBinding, binding) == fieldsBinding = Value(binding)

\* variant of jsIncorrectType: the type expected is that of a recovery token
jsIncorrectType_ExpectsRecoveryToken(fields) == fields.type # TYPE_RECOVERY_TOKEN

\* variant of jsIncorrectAudience: the field is compared with itself
jsIncorrectAudience_ComparesToItself(fields, audience) == fields.audience # fields.audience

jsIncorrectVersion(fields) == fields.version # VERSION
jsIncorrectType(fields) == fields.type # TYPE_COUNTERSIGNED_TOKEN
jsIncorrectIssuer(fields, issuer) == fields.issuer # issuer
jsIncorrectAudience(fields, audience) == fields.audience # audience

\* CountersignedToken.fromSerialized(serialized, issuer, audience,
\* allowedClockSkew, binding, publicKeys) run at time now; err names the
\* Error thrown
fromSerialized(serialized, issuer, audience, allowedClockSkew, binding, publicKeys, now) ==
    LET fields == deserialize(serialized)
        token == CountersignedTokenNew(fields.id, fields.options, fields.issuer,
                                       fields.audience, fields.issuedTime, fields.data,
                                       fields.binding, fields.signature, now)
        Throw(e) == [ok |-> FALSE, err |-> e]
    IN  IF ~fields.ok THEN Throw("RangeError")
        ELSE IF jsIncorrectVersion(fields) THEN Throw("incorrect version")
        ELSE IF jsIncorrectType(fields) THEN Throw("incorrect type")
        ELSE IF jsIncorrectIssuer(fields, issuer) THEN Throw("incorrect issuer")
        ELSE IF jsIncorrectAudience(fields, audience) THEN Throw("incorrect audience")
        ELSE IF IsNull(binding) THEN Throw("TypeError")
        ELSE IF ~jsBindingEquals(fields.binding, binding) THEN Throw("incorrect token binding")
        ELSE IF jsOutsideClockSkew(fields.issuedTime, now, allowedClockSkew)
             THEN Throw("token issued outside allowed clock skew")
        ELSE IF ~token.ok THEN Throw(token.err)
        ELSE IF ~isSignatureValid(serialized, publicKeys, Some(fields.signatureIndex)).value
             THEN Throw("invalid countersigned token signature")
        ELSE [ok |-> TRUE, err |-> ""]

(***************************************************************************)
(* sdk/java-src: RecoveryToken.java, CountersignedRecoveryToken.java       *)
(***************************************************************************)
\* decoded[offset] << 8 & 0xFF00 | decoded[offset + 1] & 0xFF
JavaCanReadLength(decoded, offset) == offset + 2 <= Len(decoded)
JavaReadLength(decoded, offset) == decoded[offset + 1] * 256 + decoded[offset + 2]

\* RecoveryToken(String encoded) up to the sanity checks: ok = FALSE when an
\* array access or Arrays.copyOfRange throws
javaParse(decoded) ==
    LET issuerAt == 19
        issuerLength == JavaReadLength(decoded, issuerAt)
        audienceAt == issuerAt + 2 + issuerLength
        audienceLength == JavaReadLength(decoded, audienceAt)
        issuedTimeAt == audienceAt + 2 + audienceLength
        issuedTimeLength == JavaReadLength(decoded, issuedTimeAt)
        dataAt == issuedTimeAt + 2 + issuedTimeLength
        dataLength == JavaReadLength(decoded, dataAt)
        bindingAt == dataAt + 2 + dataLength
        bindingLength == JavaReadLength(decoded, bindingAt)
        offset == bindingAt + 2 + bindingLength
    IN  IF /\ Len(decoded) >= 19
           /\ JavaCanReadLength(decoded, issuerAt)
           /\ JavaCanReadLength(decoded, audienceAt)
           /\ JavaCanReadLength(decoded, issuedTimeAt)
           /\ JavaCanReadLength(decoded, dataAt)
           /\ JavaCanReadLength(decoded, bindingAt)
           /\ CanCopyOfRange(decoded, offset, Len(decoded))
        THEN [ok |-> TRUE,
              version |-> decoded[1],
              type |-> decoded[2],
              id |-> CopyOfRange(decoded, 2, 18),
              options |-> decoded[19],
              issuer |-> AsciiDecodeJava(CopyOfRange(decoded, issuerAt + 2, audienceAt)),
              audience |-> AsciiDecodeJava(CopyOfRange(decoded, audienceAt + 2, issuedTimeAt)),
              issuedTime |-> AsciiDecodeJava(CopyOfRange(decoded, issuedTimeAt + 2, dataAt)),
              data |-> CopyOfRange(decoded, dataAt + 2, bindingAt),
              binding |-> CopyOfRange(decoded, bindingAt + 2, offset),
              signature |-> CopyOfRange(decoded, offset, Len(decoded)),
              decoded |-> decoded]
        ELSE [ok |-> FALSE]

\* Signature.verify(signature): "true", "false", or "SignatureException" for
\* a signature that is not a DER encoding
javaVerify(key, message, signature) ==
    IF ~WellFormedDER(signature) THEN "SignatureException"
    ELSE IF EcdsaVerify(key, message, signature) THEN "true"
    ELSE "false"

\* the for loop of RecoveryToken.isSignatureValid(keys) from key number i on
RECURSIVE javaIsSignatureValidLoop(_, _, _, _)
javaIsSignatureValidLoop(keys, message, signature, i) ==
    IF i > Len(keys) THEN [threw |-> FALSE, value |-> FALSE, tried |-> Len(keys)]
    ELSE LET v == javaVerify(keys[i], message, signature)
         IN  IF v = "SignatureException" THEN [threw |-> TRUE, value |-> FALSE, tried |-> i]
             ELSE IF v = "true" THEN [threw |-> FALSE, value |-> TRUE, tried |-> i]
             ELSE javaIsSignatureValidLoop(keys, message, signature, i + 1)

\* RecoveryToken.isSignatureValid(keys) of a parsed token
javaIsSignatureValid(token, keys) ==
    javaIsSignatureValidLoop(
        keys,
        CopyOfRange(token.decoded, 0, Len(token.decoded) - Len(token.signature)),
        token.signature, 1)

\* Java int arithmetic, seconds * 1000 in 32 bits two's complement, for
\* 0 <= seconds < 2^31.  With 2^32 = 4294967 * 1000 + 296 and
\* seconds = q * 4294967 + r, the product is r * 1000 - 296 * q modulo 2^32,
\* brought into -2^31 .. 2^31 - 1; it wraps from 2147484 seconds on
secondsTimes1000(seconds) ==
    LET q == seconds \div 4294967
        r == seconds % 4294967
        high == (r - 4294967) * 1000
        borrow == 296 * (q + 1)
    IN  IF r <= 2147483 THEN r * 1000 - 296 * q
        ELSE IF high + 2147483647 >= borrow - 1 THEN high - borrow
        ELSE ((high + 2147483647) - borrow) + 2147483647 + 2

\* the clock-skew test of the CountersignedRecoveryToken constructor, times
\* in milliseconds: skew is a long, allowedClockSkewSec * 1000 an int
\* product; "unparsable" for the ParseException
javaClockSkew(issuedTimeText, now, allowedClockSkewSec) ==
    LET parsed == fromISO8601(issuedTimeText)
        skew == Abs(Value(parsed) * 1000 - now * 1000)
    IN  IF IsNull(parsed) THEN "unparsable"
        ELSE IF skew > secondsTimes1000(allowedClockSkewSec) THEN "outside"
        ELSE "inside"

\* binding != null && !Arrays.equals(this.binding, binding)
javaBindingMismatch(thisBinding, binding) ==
    ~IsNull(binding) /\ thisBinding # Value(binding)

javaIllegalVersion(token) == token.version # VERSION
javaIllegalType(token) == token.type # TYPE_COUNTERSIGNED_TOKEN
javaIssuerMismatch(token, issuer) == token.issuer # issuer
javaAudienceMismatch(token, audience) == token.audience # audience

\* RecoveryToken(String encoded): the parse, commonSanityCheck and
\* typedSanityCheck; err names the exception
javaRecoveryToken(decoded) ==
    LET token == javaParse(decoded)
        Throw(e) == [ok |-> FALSE, err |-> e]
    IN  IF ~token.ok THEN Throw("ArrayIndexOutOfBoundsException")
        ELSE IF javaIllegalVersion(token) THEN Throw("illegal version")
        ELSE IF ~validateOrigin(token.issuer) \/ ~validateOrigin(token.audience)
             THEN Throw("InvalidOriginException")
        ELSE IF javaIllegalType(token) THEN Throw("illegal token type")
        ELSE [ok |-> TRUE, err |-> ""]

\* new CountersignedRecoveryToken(encoded, issuer, audience, keys,
\* allowedClockSkewSec, binding) run at time now; err names the exception
CountersignedRecoveryToken(decoded, issuer, audience, keys, allowedClockSkewSec, binding, now) ==
    LET super == javaRecoveryToken(decoded)
        token == javaParse(decoded)
        verified == javaIsSignatureValid(token, keys)
        skew == javaClockSkew(token.issuedTime, now, allowedClockSkewSec)
        Throw(e) == [ok |-> FALSE, err |-> e]
    IN  IF ~super.ok THEN super
        ELSE IF javaIssuerMismatch(token, issuer) THEN Throw("issuer doesn't match expected")
        ELSE IF javaAudienceMismatch(token, audience) THEN Throw("audience doesn't match expected")
        ELSE IF javaBindingMismatch(token.binding, binding) THEN Throw("binding doesn't match expected")
        ELSE IF verified.threw THEN Throw("SignatureException")
        ELSE IF ~verified.value THEN Throw("token signature didn't verify")
        ELSE IF skew = "unparsable" THEN Throw("unparsable issuedTime")
        ELSE IF skew = "outside" THEN Throw("Issued time for token outside valid clock skew window.")
        ELSE [ok |-> TRUE, err |-> ""]

(***************************************************************************)
(* The environment: origins, keys, clock and the tokens put on the wire.   *)
(***************************************************************************)
\* "https://a.bc", the account provider (this service)
ApOrigin == HttpsScheme \o << 97, 46, 98, 99 >>
\* "https://r.de", the recovery provider
RpOrigin == HttpsScheme \o << 114, 46, 100, 101 >>
\* "https://x.yz", somebody else
OtherOrigin == HttpsScheme \o << 120, 46, 121, 122 >>

PrivateKeys == {1, 2}
PublicKeys == {PubOf(k) : k \in PrivateKeys}
KeyLists == UNION {[1..n -> PublicKeys] : n \in 0..MaxKeys}

\* binding fields: up to MaxPayload bytes
Bindings == {[i \in 1..n |-> 9] : n \in 0..MaxPayload}
\* the data field of the tokens on the wire
InnerData == << 7 >>

TokenId == [i \in 1..ID_LENGTH |-> i]

\* the validator's clock: 12:00:00
Now == 12 * 3600
\* the validity period the applications pass: 60 * 60 seconds
AllowedClockSkew == 60 * 60
\* issue times: two hours ago, just over and exactly the skew ago, and just
\* over the skew ahead
IssueTimes == {Now - 2 * AllowedClockSkew, Now - AllowedClockSkew - 1,
               Now - AllowedClockSkew, Now + AllowedClockSkew + 1}

\* bytes that are no DER encoding of a signature
MalformedSignatures == {<< >>, << 0, 1 >>}

\* lengths a received token may be cut to
TruncateLengths == {1, 20, 60}

\* what is added (mod 256) to a byte that is tampered with
TamperDeltas == {1, 128}

VARIABLES
    phase,          \* "idle", then "received" / "validated" or "issued" / "verified"
    wire,           \* the serialized token (decoded from base64) in flight
    request,        \* the arguments of the validation that ran
    jsResult,       \* outcome of CountersignedToken.fromSerialized
    javaResult,     \* outcome of new CountersignedRecoveryToken
    signed,         \* the token as it was signed, by whom, and how wire was altered since
    verification,   \* the key list and the results of isSignatureValid
    impl,           \* which example application runs: "js" or "java"
    tokenRecords,   \* the application's token records, in insertion order
    issuedCount,    \* how many tokens the application has issued
    lastCall,       \* the record-keeping request handled last, and its response
    pending,        \* a save-token-return of the Java application between its two writes
    replayCache,    \* the countersigned token strings seen by recover-account-return
    monitor,        \* the request inside synchronized (replayCache), 0 for none
    requests,       \* the recover-account-return requests and where their handlers are
    codec,          \* a field tuple, its serialization and what deserializing it gave
    sdk,            \* the call of the SDK under examination, its arguments and outcome
    http,           \* the HTTP request an application served last, and the response
    configCache     \* the application's cached provider configuration and its fetches

tokenVars == << phase, wire, request, jsResult, javaResult, signed, verification >>
appVars == << impl, tokenRecords, issuedCount, lastCall, pending, replayCache, monitor, requests >>
sdkVars == << sdk, http, configCache >>
vars == << tokenVars, appVars, codec, sdkVars >>

NoRequest == [issuer |-> << >>, audience |-> << >>, allowedClockSkew |-> 0,
              binding |-> Null, publicKeys |-> << >>, now |-> 0]
NoResult == [ok |-> FALSE, err |-> "not run"]
NotSigned == [raw |-> << >>, signature |-> << >>, signer |-> NoKey, altered |-> "no"]
NotVerified == [threw |-> FALSE, value |-> FALSE, tried |-> 0]
NoVerification == [keys |-> << >>, withOffset |-> NotVerified,
                   withoutOffset |-> NotVerified, java |-> NotVerified]

\* the example application before its first request
NoCall == [handler |-> "none"]
NoPending == [active |-> FALSE]
NoCodec == [stage |-> "idle"]
NoSdkCall == [op |-> "none"]
NoExchange == [path |-> "none"]
NoConfigCache == [impl |-> "none", slot |-> Null, calls |-> << >>, running |-> FALSE]
\* no SDK call made, no request served, nothing cached
SdkIdle ==
    /\ sdk = NoSdkCall
    /\ http = NoExchange
    /\ configCache = NoConfigCache
AppNotStarted ==
    /\ impl = "js"
    /\ tokenRecords = << >>
    /\ issuedCount = 0
    /\ lastCall = NoCall
    /\ pending = NoPending
    /\ replayCache = {}
    /\ monitor = 0
    /\ requests = << >>

\* no token in flight
TokenIdle ==
    /\ phase = "idle"
    /\ wire = << >>
    /\ request = NoRequest
    /\ jsResult = NoResult
    /\ javaResult = NoResult
    /\ signed = NotSigned
    /\ verification = NoVerification

Init ==
    /\ phase = "idle"
    /\ wire = << >>
    /\ request = NoRequest
    /\ jsResult = NoResult
    /\ javaResult = NoResult
    /\ signed = NotSigned
    /\ verification = NoVerification
    /\ AppNotStarted
    /\ codec = NoCodec
    /\ SdkIdle

(***************************************************************************)
(* Countersigned-token validation (Spec).                                  *)
(***************************************************************************)
\* a token arrives at recover-account-return: any version and type, issuer
\* and audience, issue time and binding, signed by some key or carrying
\* bytes that are no signature
ReceiveToken ==
    /\ phase = "idle"
    /\ \E version \in {VERSION, 1}, type \in {TYPE_RECOVERY_TOKEN, TYPE_COUNTERSIGNED_TOKEN},
          issuer \in {RpOrigin, OtherOrigin}, audience \in {ApOrigin, OtherOrigin},
          t \in IssueTimes, binding \in Bindings :
            LET raw == serialize(version, type, TokenId, STATUS_REQUESTED_FLAG, issuer,
                                 audience, nowISO8601(t), InnerData, binding)
            IN  \E sig \in {EcdsaSign(k, raw) : k \in PrivateKeys} \cup {<< 0, 1 >>} :
                    wire' = raw \o sig
    /\ phase' = "received"
    /\ UNCHANGED << request, jsResult, javaResult, signed, verification >>
    /\ UNCHANGED << appVars, codec, sdkVars >>

\* the token is cut short on its way
Truncate ==
    /\ phase = "received"
    /\ \E n \in TruncateLengths :
        /\ n < Len(wire)
        /\ wire' = SubSeq(wire, 1, n)
    /\ UNCHANGED << phase, request, jsResult, javaResult, signed, verification >>
    /\ UNCHANGED << appVars, codec, sdkVars >>

\* both SDKs validate the received token against the same expectations
Validate ==
    /\ phase = "received"
    /\ \E binding \in {Null} \cup {Some(b) : b \in Bindings}, publicKeys \in KeyLists :
        /\ request' = [issuer |-> RpOrigin, audience |-> ApOrigin,
                       allowedClockSkew |-> AllowedClockSkew, binding |-> binding,
                       publicKeys |-> publicKeys, now |-> Now]
        /\ jsResult' = fromSerialized(wire, RpOrigin, ApOrigin, AllowedClockSkew,
                                      binding, publicKeys, Now)
        /\ javaResult' = CountersignedRecoveryToken(wire, RpOrigin, ApOrigin, publicKeys,
                                                    AllowedClockSkew, binding, Now)
    /\ phase' = "validated"
    /\ UNCHANGED << wire, signed, verification >>
    /\ UNCHANGED << appVars, codec, sdkVars >>

Next == ReceiveToken \/ Truncate \/ Validate

Spec == Init /\ [][Next]_vars

(***************************************************************************)
(* Signing and multi-key verification (SpecSig).                           *)
(***************************************************************************)
\* createNewToken: the account provider signs a recovery token with the
\* RecoveryToken constructor
SignToken ==
    /\ phase = "idle"
    /\ \E privateKey \in PrivateKeys, binding \in Bindings :
        LET token == RecoveryTokenNew(privateKey, TokenId, STATUS_REQUESTED_FLAG, ApOrigin,
                                      RpOrigin, toISOString(Now), Some(InnerData),
                                      Some(binding), << >>, Now)
        IN  /\ token.ok
            /\ wire' = token.encoded
            /\ signed' = [raw |-> token.raw, signature |-> token.signature,
                          signer |-> privateKey, altered |-> "no"]
    /\ phase' = "issued"
    /\ UNCHANGED << request, jsResult, javaResult, verification >>
    /\ UNCHANGED << appVars, codec, sdkVars >>

\* the recovery provider countersigns: the same layout with type 0x01
Countersign ==
    /\ phase = "idle"
    /\ \E privateKey \in PrivateKeys, binding \in Bindings :
        LET raw == serialize(VERSION, TYPE_COUNTERSIGNED_TOKEN, TokenId,
                             STATUS_REQUESTED_FLAG, RpOrigin, ApOrigin,
                             nowISO8601(Now), InnerData, binding)
            sig == EcdsaSign(privateKey, raw)
        IN  /\ wire' = raw \o sig
            /\ signed' = [raw |-> raw, signature |-> sig,
                          signer |-> privateKey, altered |-> "no"]
    /\ phase' = "issued"
    /\ UNCHANGED << request, jsResult, javaResult, verification >>
    /\ UNCHANGED << appVars, codec, sdkVars >>

\* one byte of the signed range is changed, the signature is kept
Tamper ==
    /\ phase = "issued"
    /\ signed.altered = "no"
    /\ \E i \in 1..Len(signed.raw), d \in TamperDeltas :
        wire' = [wire EXCEPT ![i] = (wire[i] + d) % 256]
    /\ signed' = [signed EXCEPT !.altered = "byte"]
    /\ UNCHANGED << phase, request, jsResult, javaResult, verification >>
    /\ UNCHANGED << appVars, codec, sdkVars >>

\* the signature is replaced by bytes that are no DER encoding
ReplaceSignature ==
    /\ phase = "issued"
    /\ signed.altered = "no"
    /\ \E sig \in MalformedSignatures : wire' = signed.raw \o sig
    /\ signed' = [signed EXCEPT !.altered = "signature"]
    /\ UNCHANGED << phase, request, jsResult, javaResult, verification >>
    /\ UNCHANGED << appVars, codec, sdkVars >>

\* isSignatureValid is applied to the token and a key list: by the
\* JavaScript SDK with the signature offset its parse found and without an
\* offset, and by the Java SDK to the token it parsed
Verify ==
    /\ phase = "issued"
    /\ \E keys \in KeyLists :
        LET fields == deserialize(wire)
            token == javaParse(wire)
            Threw == [threw |-> TRUE, value |-> FALSE, tried |-> 0]
        IN  verification' =
                [keys |-> keys,
                 withOffset |-> IF fields.ok
                                THEN isSignatureValid(wire, keys, Some(fields.signatureIndex))
                                ELSE Threw,
                 withoutOffset |-> isSignatureValid(wire, keys, Null),
                 java |-> IF javaRecoveryToken(wire).ok
                          THEN javaIsSignatureValid(token, keys)
                          ELSE Threw]
    /\ phase' = "verified"
    /\ UNCHANGED << wire, request, jsResult, javaResult, signed >>
    /\ UNCHANGED << appVars, codec, sdkVars >>

NextSig == SignToken \/ Countersign \/ Tamper \/ ReplaceSignature \/ Verify

SpecSig == Init /\ [][NextSig]_vars


(***************************************************************************)
(* Reference reading of a serialized token, used to state the properties:  *)
(* the layout of section 4.C read strictly (every declared length lies     *)
(* inside the buffer) and the six checks of section 4.F.                   *)
(***************************************************************************)
Layout(bytes) ==
    LET U16(at) == bytes[at + 1] * 256 + bytes[at + 2]
        Fits(at) == at + 2 <= Len(bytes)
        issuerAt == 19
        audienceAt == issuerAt + 2 + U16(issuerAt)
        issuedTimeAt == audienceAt + 2 + U16(audienceAt)
        dataAt == issuedTimeAt + 2 + U16(issuedTimeAt)
        bindingAt == dataAt + 2 + U16(dataAt)
        sigAt == bindingAt + 2 + U16(bindingAt)
    IN  IF /\ Fits(issuerAt)
           /\ Fits(audienceAt)
           /\ Fits(issuedTimeAt)
           /\ Fits(dataAt)
           /\ Fits(bindingAt)
           /\ sigAt <= Len(bytes)
        THEN [ok |-> TRUE,
              version |-> bytes[1],
              type |-> bytes[2],
              issuer |-> SubSeq(bytes, issuerAt + 3, audienceAt),
              audience |-> SubSeq(bytes, audienceAt + 3, issuedTimeAt),
              issuedTime |-> SubSeq(bytes, issuedTimeAt + 3, dataAt),
              dataAt |-> dataAt + 2,
              data |-> SubSeq(bytes, dataAt + 3, bindingAt),
              binding |-> SubSeq(bytes, bindingAt + 3, sigAt),
              signedBytes |-> SubSeq(bytes, 1, sigAt),
              signature |-> SubSeq(bytes, sigAt + 1, Len(bytes))]
        ELSE [ok |-> FALSE]

\* an absent expected binding is the empty binding
ExpectedBinding(binding) == IF IsNull(binding) THEN << >> ELSE Value(binding)

\* some key of the list verifies the signature over the bytes preceding it
SignedUnder(bytes, keys) ==
    /\ Layout(bytes).ok
    /\ \E i \in 1..Len(keys) :
          EcdsaVerify(keys[i], Layout(bytes).signedBytes, Layout(bytes).signature)

\* the issue time differs from the validator's clock by more than the skew
OutsideSkew(bytes, req) ==
    LET issued == fromISO8601(Layout(bytes).issuedTime)
    IN  IsNull(issued) \/ Abs(Value(issued) - req.now) > req.allowedClockSkew

\* the checks (1..6) of section 4.F that the token fails for the request
FailingChecks(bytes, req) ==
    LET t == Layout(bytes)
        Fails(c) ==
            CASE c = 2 -> t.version # VERSION \/ t.type # TYPE_COUNTERSIGNED_TOKEN
              [] c = 3 -> t.issuer # req.issuer \/ t.audience # req.audience
              [] c = 4 -> t.binding # ExpectedBinding(req.binding)
              [] c = 5 -> ~SignedUnder(bytes, req.publicKeys)
              [] c = 6 -> OutsideSkew(bytes, req)
    IN  IF ~t.ok THEN {1} ELSE {c \in 2..6 : Fails(c)}

\* the earliest failing check, 0 when the token passes all six
EarliestFailing(bytes, req) ==
    LET F == FailingChecks(bytes, req)
    IN  IF F = {} THEN 0 ELSE CHOOSE c \in F : \A d \in F : c <= d

\* the check a validation outcome reports: 0 for a returned token
ReportedCheck(result) ==
    IF result.ok THEN 0
    ELSE CASE result.err \in {"RangeError", "ArrayIndexOutOfBoundsException",
                              "InvalidOriginException", "malformed issuer",
                              "malformed audience", "malformed id"} -> 1
           [] result.err \in {"incorrect version", "incorrect type",
                              "illegal version", "illegal token type"} -> 2
           [] result.err \in {"incorrect issuer", "incorrect audience",
                              "issuer doesn't match expected",
                              "audience doesn't match expected"} -> 3
           [] result.err \in {"incorrect token binding", "TypeError",
                              "binding doesn't match expected"} -> 4
           [] result.err \in {"invalid countersigned token signature",
                              "token signature didn't verify", "SignatureException"} -> 5
           [] OTHER -> 6

Validated == phase = "validated"
Verified == phase = "verified"

(***************************************************************************)
(* C1.  Validation reports the earliest failing check of the fixed order   *)
(* parse, version/type, issuer/audience, binding, signature, clock skew,   *)
(* and returns a token only when no check fails.  (The JavaScript          *)
(* validator is given a Buffer as expected binding, as its documentation   *)
(* requires.)                                                              *)
(***************************************************************************)
C1_FixedOrder ==
    Validated =>
        /\ ~IsNull(request.binding) =>
              ReportedCheck(jsResult) = EarliestFailing(wire, request)
        /\ ReportedCheck(javaResult) = EarliestFailing(wire, request)

(***************************************************************************)
(* C2.  A token object is returned only if the signature verifies, over    *)
(* the bytes preceding it, under at least one of the supplied keys.        *)
(***************************************************************************)
C2_AcceptedOnlyIfSigned ==
    Validated =>
        /\ jsResult.ok => SignedUnder(wire, request.publicKeys)
        /\ javaResult.ok => SignedUnder(wire, request.publicKeys)

\* a token signed by the second key of a two-key list is accepted by both
C2_Witness ==
    /\ Validated
    /\ jsResult.ok
    /\ javaResult.ok
    /\ Len(request.publicKeys) = 2
    /\ ~EcdsaVerify(request.publicKeys[1], Layout(wire).signedBytes, Layout(wire).signature)

(***************************************************************************)
(* C3.  A token whose issue time differs from the validator's clock by     *)
(* more than allowedClockSkew seconds, in either direction, is rejected.   *)
(***************************************************************************)
C3_OutsideSkewRejected ==
    (Validated /\ Layout(wire).ok /\ OutsideSkew(wire, request)) =>
        /\ ~jsResult.ok
        /\ ~javaResult.ok

(***************************************************************************)
(* C4.  A token whose binding is not byte-equal to the expected binding is *)
(* rejected, an absent (null) expected binding counting as the empty one.  *)
(***************************************************************************)
C4_BindingMismatchRejected ==
    (Validated /\ Layout(wire).ok
        /\ Layout(wire).binding # ExpectedBinding(request.binding)) =>
        /\ ~jsResult.ok
        /\ ~javaResult.ok

C6_VersionAndTypeRequired ==
    (Validated /\ (jsResult.ok \/ javaResult.ok)) =>
        /\ wire[1] = 0
        /\ wire[2] = 1

\* a plain recovery token (type 0x00), correctly signed by a supplied key
\* and passing every other check, is rejected
C6_Witness ==
    /\ Validated
    /\ FailingChecks(wire, request) = {2}
    /\ wire[1] = 0
    /\ wire[2] = 0
    /\ SignedUnder(wire, request.publicKeys)
    /\ ~jsResult.ok
    /\ ~javaResult.ok

(***************************************************************************)
(* C7.  A token made by the signing RecoveryToken constructor with private *)
(* key K verifies under every key list containing pub(K), with and without *)
(* the signatureOffset argument.                                           *)
(***************************************************************************)
C7_SignThenVerify ==
    (Verified /\ signed.altered = "no" /\ wire[2] = TYPE_RECOVERY_TOKEN
        /\ \E i \in 1..Len(verification.keys) : verification.keys[i] = PubOf(signed.signer)) =>
        /\ verification.withOffset.value
        /\ verification.withoutOffset.value

(***************************************************************************)
(* C8.  Signing and verification cover the serialization from the version  *)
(* byte through the end of the binding: an unaltered token verifies under  *)
(* its signer's key, and after any byte of that range is changed, the      *)
(* signature kept, verification fails for every key list.                  *)
(***************************************************************************)
C8_TamperDetected ==
    Verified =>
        /\ signed.altered = "byte" =>
              /\ ~verification.withOffset.value
              /\ ~verification.java.value
        /\ (signed.altered = "no"
              /\ \E i \in 1..Len(verification.keys) :
                    verification.keys[i] = PubOf(signed.signer)) =>
              verification.withOffset.value

\* one bit of the data field of a signed token is flipped and the token is
\* verified against a list holding the signer's key
C8_Witness ==
    /\ Verified
    /\ signed.altered = "byte"
    /\ Layout(wire).ok
    /\ Layout(wire).data # InnerData
    /\ Layout(wire).signature = signed.signature
    /\ \E i \in 1..Len(verification.keys) : verification.keys[i] = PubOf(signed.signer)
    /\ ~verification.withOffset.threw
    /\ ~verification.withOffset.value

(***************************************************************************)
(* C9.  A token signed by K verifies exactly under the key lists that      *)
(* contain pub(K); the keys are tried in list order and the result is true *)
(* at the first key that verifies, false after the last key otherwise.     *)
(***************************************************************************)
FirstIndexOfKey(keys, key) ==
    IF \E i \in 1..Len(keys) : keys[i] = key
    THEN CHOOSE i \in 1..Len(keys) : keys[i] = key /\ \A j \in 1..(i - 1) : keys[j] # key
    ELSE 0

MultiKeyResult(result, keys, key) ==
    /\ ~result.threw
    /\ result.value = (FirstIndexOfKey(keys, key) # 0)
    /\ result.tried = IF result.value THEN FirstIndexOfKey(keys, key) ELSE Len(keys)

C10_MalformedSignatureIsNonMatch ==
    (Verified /\ signed.altered = "signature") =>
        /\ verification.withOffset = [threw |-> FALSE, value |-> FALSE,
                                      tried |-> Len(verification.keys)]
        /\ wire[2] = TYPE_COUNTERSIGNED_TOKEN =>
              verification.java = [threw |-> FALSE, value |-> FALSE,
                                   tried |-> Len(verification.keys)]


(***************************************************************************)
(* The example applications: examples/js (index.js of the application) and *)
(* examples/java (sparkapp).  Strings that are compared with bytes of a    *)
(* token (hex ids, hashes) are sequences of character codes; user names    *)
(* and status values are strings.                                          *)
(***************************************************************************)
\* bound: how many tokens the application issues
MaxIssued == 2
\* bound: how many recover-account-return requests arrive
MaxRequests == 2

\* RECOVERY_PRIVATE_KEY of the application
recoveryPrivKey == 1
\* the key the recovery provider countersigns with; its public key is the
\* one key of countersign-pubkeys-secp256r1
CountersignKey == 2
\* SHA256Digest.getByteLength(): the block size, not the digest size
SHA256_BYTE_LENGTH == 64
\* SHA256Digest.getDigestSize()
SHA256_DIGEST_SIZE == 32

\* the user who saves tokens
Usernames == {"alice"}

\* crypto.randomBytes(16) / DelegatedRecoveryUtils.newTokenID(): the n-th
\* id drawn; no two draws collide
NewTokenId(n) == [i \in 1..ID_LENGTH |-> 160 + n]

\* one lowercase hex digit
HexDigit(n) == IF n < 10 THEN 48 + n ELSE 87 + n
\* DelegatedRecoveryUtils.encodeHex, Buffer.prototype.toString('hex')
encodeHex(rawBytes) ==
    [i \in 1..(2 * Len(rawBytes)) |->
        IF i % 2 = 1 THEN HexDigit(rawBytes[(i + 1) \div 2] \div 16)
        ELSE HexDigit(rawBytes[i \div 2] % 16)]

\* sha256(buffer) of sdk/js-src/index.js: the hex of the digest
sha256(buffer) == encodeHex(Sha256(buffer))

\* DelegatedRecoveryUtils.sha256 and getInnerTokenHash: the digest is written
\* to the front of an array of getByteLength() bytes and the whole array is
\* hex-encoded
javaSha256(bytes) ==
    encodeHex(Sha256(bytes) \o [i \in 1..(SHA256_BYTE_LENGTH - SHA256_DIGEST_SIZE) |-> 0])

\* the signing constructor RecoveryToken(privateKey, id, options, issuer,
\* audience, data, binding) run at time now
javaRecoveryTokenNew(privateKey, id, options, issuer, audience, data, binding, now) ==
    LET issuedTime == nowISO8601(now)
        raw == serialize(VERSION, TYPE_RECOVERY_TOKEN, id, options,
                         AsciiEncodeJava(issuer), AsciiEncodeJava(audience),
                         AsciiEncodeJava(issuedTime), Value(data), Value(binding))
        signature == EcdsaSign(privateKey, raw)
    IN  IF Len(id) # ID_LENGTH THEN [ok |-> FALSE, err |-> "InvalidParameterException"]
        ELSE IF ~validateOrigin(issuer) \/ ~validateOrigin(audience)
             THEN [ok |-> FALSE, err |-> "InvalidOriginException"]
        \* data.clone() / binding.clone() of null
        ELSE IF IsNull(data) \/ IsNull(binding)
             THEN [ok |-> FALSE, err |-> "NullPointerException"]
        ELSE [ok |-> TRUE, err |-> "",
              version |-> VERSION,
              type |-> TYPE_RECOVERY_TOKEN,
              id |-> id,
              options |-> options,
              issuer |-> issuer,
              audience |-> audience,
              issuedTime |-> issuedTime,
              data |-> Value(data),
              binding |-> Value(binding),
              signature |-> signature,
              encoded |-> raw \o signature]

\* createNewToken(username) of either application, for the n-th id: the
\* token and the record pushed to tokenRecords / RecoveryTokenRecordDao
createNewToken(kind, n, username) ==
    LET id == NewTokenId(n)
        token == IF kind = "js"
                 THEN RecoveryTokenNew(recoveryPrivKey, id, STATUS_REQUESTED_FLAG, ApOrigin,
                                       RpOrigin, toISOString(Now), Some(<< >>), Some(<< >>),
                                       << >>, Now)
                 ELSE javaRecoveryTokenNew(recoveryPrivKey, id, STATUS_REQUESTED_FLAG, ApOrigin,
                                           RpOrigin, Some(<< >>), Some(<< >>), Now)
    IN  [token |-> token.encoded,
         id |-> id,
         record |-> [status |-> "provisional",
                     username |-> username,
                     id |-> encodeHex(id),
                     issuer |-> RpOrigin,
                     hash |-> IF kind = "js" THEN sha256(token.encoded)
                              ELSE javaSha256(token.encoded)]]

\* tokenRecords.find / findIndex by id, getTokenRecordById: the index of the
\* first record with the id, 0 when there is none
FindById(records, id) ==
    IF \E i \in 1..Len(records) : records[i].id = id
    THEN CHOOSE i \in 1..Len(records) :
            records[i].id = id /\ \A j \in 1..(i - 1) : records[j].id # id
    ELSE 0

\* tokenRecords.find by hash, getTokenRecordByHash
FindByHash(records, hash) ==
    IF \E i \in 1..Len(records) : records[i].hash = hash
    THEN CHOOSE i \in 1..Len(records) :
            records[i].hash = hash /\ \A j \in 1..(i - 1) : records[j].hash # hash
    ELSE 0

\* find((record) => record.id === id && record.status === confirmed)
FindConfirmedById(records, id) ==
    IF \E i \in 1..Len(records) : records[i].id = id /\ records[i].status = "confirmed"
    THEN CHOOSE i \in 1..Len(records) :
            /\ records[i].id = id /\ records[i].status = "confirmed"
            /\ \A j \in 1..(i - 1) : ~(records[j].id = id /\ records[j].status = "confirmed")
    ELSE 0

\* a confirmed record of the user exists
HasConfirmed(records, username) ==
    \E i \in 1..Len(records) :
        records[i].username = username /\ records[i].status = "confirmed"

\* record.status = status / record.setStatus(status) on the i-th record
SetStatus(records, i, status) == [records EXCEPT ![i].status = status]

\* setStatus on a record object obtained earlier: the store changes only if
\* the object is still in it
SetStatusById(records, id, status) ==
    IF FindById(records, id) = 0 THEN records
    ELSE SetStatus(records, FindById(records, id), status)

\* variant of Splice: the index is taken as -1, which removes the last record
Splice_RemovesLast(records, i) == SubSeq(records, 1, Len(records) - 1)

\* tokenRecords.splice(i, 1)
Splice(records, i) == SubSeq(records, 1, i - 1) \o SubSeq(records, i + 1, Len(records))

\* RecoveryTokenRecordDao.deleteRecordById: records.removeIf
deleteRecordById(records, id) == SelectSeq(records, LAMBDA r : r.id # id)

(***************************************************************************)
(* The record-keeping handlers as functions of the record store.           *)
(***************************************************************************)
\* what a handler did to the store and what it answered
Outcome(records, code, body) == [records |-> records, code |-> code, body |-> body]

\* app.get(path.web.saveTokenReturn): ids is state.split(',', 2).  The
\* obsoleted record is null without a second id, undefined (0) when find
\* matches nothing; assigning to a property of undefined throws TypeError,
\* which express answers with status 500.
jsSaveTokenReturn(records, ids, status) ==
    LET tokenRecord == FindById(records, ids[1])
        obsoletedRecord == IF Len(ids) > 1 THEN Some(FindConfirmedById(records, ids[2]))
                           ELSE Null
        confirmed == SetStatus(records, tokenRecord, "confirmed")
    IN  IF tokenRecord = 0 THEN Outcome(records, 200, "unknownToken")
        ELSE IF status = "save-success"
             THEN IF IsNull(obsoletedRecord) THEN Outcome(confirmed, 200, "saveTokenSuccess")
                  ELSE IF Value(obsoletedRecord) = 0 THEN Outcome(confirmed, 500, "TypeError")
                  ELSE Outcome(SetStatus(confirmed, Value(obsoletedRecord), "invalid"),
                               200, "saveTokenSuccess")
        ELSE Outcome(Splice(records, FindById(records, ids[1])), 200, "saveTokenFailure")

\* SaveTokenController.serveSaveTokenReturn up to and including its first
\* write; obsolete is the id of obsoletedRecord when that is not null and
\* still has to be written (code 0: no answer yet)
javaSaveTokenReturnBegin(records, ids, status) ==
    LET record == FindById(records, ids[1])
        obsoletedRecord == IF Len(ids) > 1 THEN FindById(records, ids[2]) ELSE 0
    IN  IF record = 0 THEN Outcome(records, 200, "unknownToken") @@ [obsolete |-> Null]
        ELSE IF status = "save-success"
             THEN IF obsoletedRecord = 0
                  THEN Outcome(SetStatus(records, record, "confirmed"), 200, "saveTokenSuccess")
                       @@ [obsolete |-> Null]
                  ELSE Outcome(SetStatus(records, record, "confirmed"), 0, "")
                       @@ [obsolete |-> Some(ids[2])]
        ELSE Outcome(deleteRecordById(records, ids[1]), 200, "saveTokenFailure")
             @@ [obsolete |-> Null]

\* the rest of serveSaveTokenReturn: obsoletedRecord.setStatus(INVALID)
javaSaveTokenReturnEnd(records, obsolete) ==
    Outcome(SetStatusById(records, obsolete, "invalid"), 200, "saveTokenSuccess")

\* variant of jsTokenStatus: an id without record is answered 404
jsTokenStatus_ReportsUnknownId(records, id, status) ==
    LET tokenRecord == FindById(records, id)
    IN  IF tokenRecord = 0 THEN Outcome(records, 404, "")
        ELSE CASE status = "save-success" ->
                    Outcome(SetStatus(records, tokenRecord, "confirmed"), 200, "")
               [] status = "save-failure" ->
                    Outcome(SelectSeq(records, LAMBDA r : r.id # id), 200, "")
               [] status = "token-repudiated" ->
                    Outcome(SetStatus(records, tokenRecord, "invalid"), 200, "")
               [] OTHER -> Outcome(records, 200, "")

\* app.post(delegatedRecoverySDK.STATUS_PATH)
jsTokenStatus(records, id, status) ==
    LET tokenRecord == FindById(records, id)
    IN  IF tokenRecord = 0 THEN Outcome(records, 200, "")
        ELSE CASE status = "save-success" ->
                    Outcome(SetStatus(records, tokenRecord, "confirmed"), 200, "")
               [] status = "save-failure" ->
                    Outcome(Splice(records, FindById(records, id)), 200, "")
               [] status = "token-repudiated" ->
                    Outcome(SetStatus(records, tokenRecord, "invalid"), 200, "")
               [] OTHER -> Outcome(records, 200, "")

\* post(DelegatedRecoveryConfiguration.TOKEN_STATUS_PATH) of Main
javaTokenStatus(records, id, status) ==
    LET record == FindById(records, id)
    IN  IF record = 0 THEN Outcome(records, 200, "")
        ELSE IF status = "save-success"
             THEN Outcome(SetStatus(records, record, "confirmed"), 200, "")
        ELSE IF status = "save-failure" \/ status = "deleted"
             THEN Outcome(deleteRecordById(records, id), 200, "")
        ELSE IF status = "token-repudiated"
             THEN Outcome(SetStatus(records, record, "invalid"), 200, "")
        ELSE Outcome(records, 200, "")

\* app.get(path.web.invalidateToken) / serveInvalidateToken: a redirect
invalidateToken(records, id) ==
    IF FindById(records, id) = 0 THEN Outcome(records, 302, "saveToken")
    ELSE Outcome(SetStatus(records, FindById(records, id), "invalid"), 302, "saveToken")

(***************************************************************************)
(* Record keeping (SpecApp).                                               *)
(***************************************************************************)
\* the ids a request may name: those of the tokens issued and one that was
\* never issued
IdStrings == {encodeHex(NewTokenId(n)) : n \in 0..MaxIssued}
\* state.split(',', 2) of a save-token-return
IdLists == {<< a >> : a \in IdStrings} \cup {<< a, b >> : a \in IdStrings, b \in IdStrings}
\* status values of the status callback
StatusValues == {"save-success", "save-failure", "deleted", "token-repudiated", "pending"}

Call(handler, username, ids, status, token, code, body) ==
    [handler |-> handler, username |-> username, ids |-> ids, status |-> status,
     token |-> token, code |-> code, body |-> body]

InitApp ==
    /\ TokenIdle
    /\ codec = NoCodec
    /\ SdkIdle
    /\ impl \in {"js", "java"}
    /\ tokenRecords = << >>
    /\ issuedCount = 0
    /\ lastCall = NoCall
    /\ pending = NoPending
    /\ replayCache = {}
    /\ monitor = 0
    /\ requests = << >>

\* app.get(path.web.saveToken) / serveSaveToken for a user name
SaveToken ==
    /\ issuedCount < MaxIssued
    /\ \E username \in Usernames :
        IF HasConfirmed(tokenRecords, username)
        THEN /\ lastCall' = Call("saveToken", username, << >>, "", << >>, 200, "invalidateToken")
             /\ UNCHANGED << tokenRecords, issuedCount >>
        ELSE LET new == createNewToken(impl, issuedCount + 1, username)
             IN  /\ tokenRecords' = Append(tokenRecords, new.record)
                 /\ issuedCount' = issuedCount + 1
                 /\ lastCall' = Call("saveToken", username, << encodeHex(new.id) >>, "",
                                     new.token, 200, "saveToken")
    /\ UNCHANGED << impl, pending, replayCache, monitor, requests, tokenVars, codec, sdkVars >>

\* app.get(path.web.renewToken) / serveRenewToken
RenewToken ==
    /\ issuedCount < MaxIssued
    /\ \E username \in Usernames, obsoleteId \in IdStrings :
        LET new == createNewToken(impl, issuedCount + 1, username)
        IN  /\ tokenRecords' = Append(tokenRecords, new.record)
            /\ issuedCount' = issuedCount + 1
            /\ lastCall' = Call("renewToken", username, << encodeHex(new.id), obsoleteId >>, "",
                                new.token, 200, "renewToken")
    /\ UNCHANGED << impl, pending, replayCache, monitor, requests, tokenVars, codec, sdkVars >>

\* save-token-return: the whole handler of the JavaScript application (one
\* turn of the event loop); the Java handler up to its first write
SaveTokenReturn ==
    /\ ~pending.active
    /\ \E ids \in IdLists, status \in {"save-success", "save-failure"} :
        IF impl = "js"
        THEN LET out == jsSaveTokenReturn(tokenRecords, ids, status)
             IN  /\ tokenRecords' = out.records
                 /\ lastCall' = Call("saveTokenReturn", "", ids, status, << >>, out.code, out.body)
                 /\ pending' = NoPending
        ELSE LET out == javaSaveTokenReturnBegin(tokenRecords, ids, status)
             IN  /\ tokenRecords' = out.records
                 /\ lastCall' = Call("saveTokenReturn", "", ids, status, << >>, out.code, out.body)
                 /\ pending' = IF IsNull(out.obsolete) THEN NoPending
                                ELSE [active |-> TRUE, ids |-> ids, status |-> status]
    /\ UNCHANGED << impl, issuedCount, replayCache, monitor, requests, tokenVars, codec, sdkVars >>

\* the Java save-token-return handler writes the obsoleted record and answers
SaveTokenReturnFinish ==
    /\ pending.active
    /\ LET out == javaSaveTokenReturnEnd(tokenRecords, pending.ids[2])
       IN  /\ tokenRecords' = out.records
           /\ lastCall' = Call("saveTokenReturn", "", pending.ids, pending.status, << >>,
                               out.code, out.body)
    /\ pending' = NoPending
    /\ UNCHANGED << impl, issuedCount, replayCache, monitor, requests, tokenVars, codec, sdkVars >>

\* app.get(path.web.invalidateToken) / serveInvalidateToken
InvalidateToken ==
    /\ \E id \in IdStrings :
        LET out == invalidateToken(tokenRecords, id)
        IN  /\ tokenRecords' = out.records
            /\ lastCall' = Call("invalidateToken", "", << id >>, "", << >>, out.code, out.body)
    /\ UNCHANGED << impl, issuedCount, pending, replayCache, monitor, requests, tokenVars, codec, sdkVars >>

\* the token-status callback
TokenStatus ==
    /\ \E id \in IdStrings, status \in StatusValues :
        LET out == IF impl = "js" THEN jsTokenStatus(tokenRecords, id, status)
                   ELSE javaTokenStatus(tokenRecords, id, status)
        IN  /\ tokenRecords' = out.records
            /\ lastCall' = Call("tokenStatus", "", << id >>, status, << >>, out.code, out.body)
    /\ UNCHANGED << impl, issuedCount, pending, replayCache, monitor, requests, tokenVars, codec, sdkVars >>

NextApp ==
    \/ SaveToken
    \/ RenewToken
    \/ SaveTokenReturn
    \/ SaveTokenReturnFinish
    \/ InvalidateToken
    \/ TokenStatus

SpecApp == InitApp /\ [][NextApp]_vars

(***************************************************************************)
(* Properties of the record keeping.                                       *)
(***************************************************************************)
\* the status of the record with the id, "absent" when there is none
StatusOf(records, id) ==
    IF FindById(records, id) = 0 THEN "absent" ELSE records[FindById(records, id)].status

\* the store without the records of the id
Without(records, id) == SelectSeq(records, LAMBDA r : r.id # id)

\* the store with the status of the id's record replaced
WithStatus(records, id, status) ==
    [i \in 1..Len(records) |->
        IF records[i].id = id THEN [records[i] EXCEPT !.status = status] ELSE records[i]]

\* the transition section 4 prescribes for a status callback on a known id
StatusTransition(records, id, status) ==
    CASE status = "save-success" -> WithStatus(records, id, "confirmed")
      [] status \in {"save-failure", "deleted"} -> Without(records, id)
      [] status = "token-repudiated" -> WithStatus(records, id, "invalid")
      [] OTHER -> records

(***************************************************************************)
(* C14.  For a known record id the status callback sets the record to      *)
(* confirmed on save-success, removes it on save-failure and on deleted,   *)
(* sets it to invalid on token-repudiated and leaves it unchanged on any   *)
(* other status value.                                                     *)
(***************************************************************************)
C14_StatusTransitions ==
    [][(lastCall'.handler = "tokenStatus"
            /\ FindById(tokenRecords, lastCall'.ids[1]) # 0) =>
        tokenRecords' = StatusTransition(tokenRecords, lastCall'.ids[1], lastCall'.status)]_vars

(***************************************************************************)
(* C15.  The status callback answers 200 with an empty body for every id   *)
(* and status value, and leaves the record store unchanged when the id     *)
(* matches no record.                                                      *)
(***************************************************************************)
C15_StatusAlwaysOk ==
    [][lastCall'.handler = "tokenStatus" =>
        /\ lastCall'.code = 200
        /\ lastCall'.body = ""
        /\ FindById(tokenRecords, lastCall'.ids[1]) = 0 => tokenRecords' = tokenRecords]_vars

\* a save-failure callback for an id without record was answered while the
\* store held the record of another token
C15_Witness ==
    /\ lastCall.handler = "tokenStatus"
    /\ lastCall.status = "save-failure"
    /\ FindById(tokenRecords, lastCall.ids[1]) = 0
    /\ lastCall.ids[1] = encodeHex(NewTokenId(0))
    /\ Len(tokenRecords) >= 1
    /\ lastCall.code = 200

(***************************************************************************)
(* C16.  Every issuance (save-token, renew) appends exactly one record,    *)
(* provisional, whose id is the hex of the token id and whose hash is the  *)
(* hex SHA-256 of the serialized token; no record appears in another       *)
(* status; a later save-success callback for the id makes it confirmed.    *)
(***************************************************************************)
C16_IssuanceRecords ==
    [][/\ (lastCall'.handler \in {"saveToken", "renewToken"} /\ lastCall'.token # << >>) =>
            /\ Len(tokenRecords') = Len(tokenRecords) + 1
            /\ SubSeq(tokenRecords', 1, Len(tokenRecords)) = tokenRecords
            /\ tokenRecords'[Len(tokenRecords')].status = "provisional"
            /\ tokenRecords'[Len(tokenRecords')].id = encodeHex(SubSeq(lastCall'.token, 3, 18))
            /\ tokenRecords'[Len(tokenRecords')].hash = encodeHex(Sha256(lastCall'.token))
       /\ \A i \in 1..Len(tokenRecords') :
            FindById(tokenRecords, tokenRecords'[i].id) = 0 =>
                tokenRecords'[i].status = "provisional"
       /\ (lastCall'.handler = "tokenStatus" /\ lastCall'.status = "save-success"
              /\ FindById(tokenRecords, lastCall'.ids[1]) # 0) =>
            StatusOf(tokenRecords', lastCall'.ids[1]) = "confirmed"]_vars

(***************************************************************************)
(* C17.  A save-token-return with state newId,oldId and status             *)
(* save-success for a known newId completes normally with newId confirmed  *)
(* and oldId, if it has a record, invalid; and no state in between shows   *)
(* the new record confirmed while the old one is still confirmed.          *)
(***************************************************************************)
C17_RenewalAtomic ==
    /\ (pending.active /\ pending.ids[1] # pending.ids[2]) =>
          ~(/\ StatusOf(tokenRecords, pending.ids[1]) = "confirmed"
            /\ StatusOf(tokenRecords, pending.ids[2]) = "confirmed")
    /\ (/\ lastCall.handler = "saveTokenReturn"
        /\ lastCall.status = "save-success"
        /\ Len(lastCall.ids) = 2
        /\ ~pending.active
        /\ lastCall.body # "unknownToken") =>
          /\ lastCall.code = 200
          /\ lastCall.ids[1] # lastCall.ids[2] =>
                /\ StatusOf(tokenRecords, lastCall.ids[1]) = "confirmed"
                /\ StatusOf(tokenRecords, lastCall.ids[2]) \in {"invalid", "absent"}

extractIssuer_OneByteEarly(buffer) ==
    IF ~CanReadUInt16BE(buffer, 18) THEN Null
    ELSE Some(AsciiDecodeJS(Slice(buffer, 20, 20 + ReadUInt16BE(buffer, 18))))

extractIssuer(buffer) ==
    IF ~CanReadUInt16BE(buffer, 19) THEN Null
    ELSE Some(AsciiDecodeJS(Slice(buffer, 21, 21 + ReadUInt16BE(buffer, 19))))

\* CountersignedRecoveryToken.extractIssuer: Null when the array access or
\* copyOfRange throws
javaExtractIssuer(tmp) ==
    IF ~JavaCanReadLength(tmp, 19) \/ ~CanCopyOfRange(tmp, 21, 21 + JavaReadLength(tmp, 19))
    THEN Null
    ELSE Some(AsciiDecodeJava(CopyOfRange(tmp, 21, 21 + JavaReadLength(tmp, 19))))

\* countersign-pubkeys-secp256r1 of the recovery provider's configuration
CountersignPubKeys == << PubOf(CountersignKey) >>

\* the key somebody else's origin publishes in its configuration
OtherKey == 3

\* DelegatedRecoveryUtils.fetchConfiguration(issuer, RECOVERY_PROVIDER)
\* .getPubKeys(): what the origin publishes
fetchConfiguration(origin) ==
    IF origin = RpOrigin THEN CountersignPubKeys ELSE << PubOf(OtherKey) >>

\* the token the application issued first, and its record
FirstIssued(kind) == createNewToken(kind, 1, "alice")

\* a countersigned token around an inner token, from the given issuer and
\* signed with the given key
CountersignedFor(inner, issuer, privateKey) ==
    LET raw == serialize(VERSION, TYPE_COUNTERSIGNED_TOKEN, TokenId, STATUS_REQUESTED_FLAG,
                         issuer, ApOrigin, nowISO8601(Now), inner, << >>)
    IN  raw \o EcdsaSign(privateKey, raw)

\* the token strings submitted, all around the first issued token: the
\* recovery provider's countersigned token, one in its name signed with
\* another key, and one issued and signed by somebody else
SubmittedTokens(kind) ==
    {CountersignedFor(FirstIssued(kind).token, RpOrigin, CountersignKey),
     CountersignedFor(FirstIssued(kind).token, RpOrigin, OtherKey),
     CountersignedFor(FirstIssued(kind).token, OtherOrigin, OtherKey)}

\* the state parameter: empty, the user of the record, another user
StateValues == {"", "alice", "bob"}

\* the record checks both handlers make after validation: the message of
\* the first failing one, "" when none fails
RecordError(records, hash, expectedUsername) ==
    LET record == FindByHash(records, hash)
    IN  IF record = 0 THEN "No record of this token."
        ELSE IF records[record].status # "confirmed"
             THEN "The recovery token from this app wasn't marked as valid."
        ELSE IF expectedUsername # "" /\ expectedUsername # records[record].username
             THEN "The recovery token from this app was not for the user"
        ELSE ""

\* the then-callback of app.post(path.web.recoverAccountReturn): the
\* messages passed to errorFunction, in order (replayed: errorFunction was
\* already called by the replay test)
jsRecoverErrors(token, expectedUsername, records, replayed) ==
    LET issuer == extractIssuer(token)
        validation == fromSerialized(token, Value(issuer), ApOrigin, AllowedClockSkew,
                                     Some(<< >>), CountersignPubKeys, Now)
        recordError == RecordError(records, sha256(deserialize(token).data), expectedUsername)
    IN  (IF replayed THEN << "Countersigned token replay detected!" >> ELSE << >>)
        \o (IF Value(issuer) # RpOrigin THEN << "Countersigned token issuer invalid" >>
            ELSE << >>)
        \o (IF ~validation.ok THEN << validation.err >>
            ELSE IF recordError # "" THEN << recordError >>
            ELSE << >>)

\* a handler whose success branch does not look at errorFlag set by the
\* replay test
jsRecoverResponse_ForgetsReplay(token, expectedUsername, records, replayed) ==
    LET errors == jsRecoverErrors(token, expectedUsername, records, FALSE)
    IN  IF Len(errors) = 0 THEN "success" ELSE errors[1]

\* what the JavaScript handler renders: the first call of res.render
jsRecoverResponse(token, expectedUsername, records, replayed) ==
    LET errors == jsRecoverErrors(token, expectedUsername, records, replayed)
    IN  IF Len(errors) = 0 THEN "success" ELSE errors[1]

\* serveRecoverAccountReturn after the replay test: the rendered success or
\* the message of the exception caught
javaRecoverResponse(encoded, expectedUsername, records) ==
    LET issuer == javaExtractIssuer(encoded)
        pubKeys == IF Value(issuer) = RpOrigin THEN CountersignPubKeys
                   ELSE fetchConfiguration(Value(issuer))
        validation == CountersignedRecoveryToken(encoded, Value(issuer), ApOrigin,
                                                 pubKeys, AllowedClockSkew, Null, Now)
        recordError == RecordError(records, javaSha256(javaParse(encoded).data),
                                   expectedUsername)
    IN  IF IsNull(issuer) THEN "ArrayIndexOutOfBoundsException"
        ELSE IF ~validation.ok THEN validation.err
        ELSE IF recordError # "" THEN recordError
        ELSE "success"

\* a replay test outside any synchronized block
MonitorFree_NoLock(owner) == TRUE

\* synchronized (replayCache): the monitor can be entered
MonitorFree(owner) == owner = 0

\* what a handler hands to res.render / Main.render: the template and its
\* model. errorFunction passes the message as "exception"; the catch block
\* of serveRecoverAccountReturn passes the message of the exception as
\* "exception" and its printed stack trace as "stackTrace"
NoRender == [template |-> "none", exception |-> "", stackTrace |-> Null]

jsRender(response) ==
    IF response = "success"
    THEN [template |-> "recoverAccountSuccess", exception |-> "", stackTrace |-> Null]
    ELSE [template |-> "recoverAccountFailure", exception |-> response, stackTrace |-> Null]

javaRender(response) ==
    IF response = "success"
    THEN [template |-> "recoverAccountSuccess", exception |-> "", stackTrace |-> Null]
    ELSE [template |-> "recoverAccountFailure", exception |-> response,
          stackTrace |-> Some(<< "java.lang.Exception", response >>)]

\* a request in flight
Request(token, state, pc, replayed) ==
    [token |-> token, state |-> state, pc |-> pc, replayed |-> replayed, response |-> "",
     rendered |-> NoRender]

\* the request once its handler has rendered a response
Responded(kind, req, response) ==
    [req EXCEPT !.pc = "done",
                    !.response = response,
                    !.rendered = IF kind = "js" THEN jsRender(response)
                                 ELSE javaRender(response)]

\* the store at recovery time: empty, or the record of the first token,
\* confirmed or invalidated
InitRecover ==
    /\ TokenIdle
    /\ codec = NoCodec
    /\ SdkIdle
    /\ impl \in {"js", "java"}
    /\ tokenRecords \in {<< >>} \cup
          {<< [FirstIssued(impl).record EXCEPT !.status = status] >> :
              status \in {"confirmed", "invalid"}}
    /\ issuedCount = Len(tokenRecords)
    /\ lastCall = NoCall
    /\ pending = NoPending
    /\ replayCache = {}
    /\ monitor = 0
    /\ requests = << >>

\* a POST arrives at the JavaScript handler, which runs up to
\* recoveryProviderConfig().then: the replay test and the push, in one turn
\* of the event loop
JsReplayGuard ==
    /\ impl = "js"
    /\ Len(requests) < MaxRequests
    /\ \E token \in SubmittedTokens(impl), state \in StateValues :
        /\ requests' = Append(requests, Request(token, state, "guarded",
                                                token \in replayCache))
        /\ replayCache' = replayCache \cup {token}
    /\ UNCHANGED << impl, tokenRecords, issuedCount, lastCall, pending, monitor,
                    tokenVars, codec, sdkVars >>

\* a request arrives at the Java handler, whose thread enters
\* synchronized (replayCache) and tests replayCache.contains(encoded)
JavaEnterMonitor ==
    /\ impl = "java"
    /\ Len(requests) < MaxRequests
    /\ MonitorFree(monitor)
    /\ \E token \in SubmittedTokens(impl), state \in StateValues :
        requests' = Append(requests, Request(token, state, "inMonitor",
                                             token \in replayCache))
    /\ monitor' = Len(requests) + 1
    /\ UNCHANGED << impl, tokenRecords, issuedCount, lastCall, pending, replayCache,
                    tokenVars, codec, sdkVars >>

\* the Java thread throws for a replay or adds the token, and leaves the
\* synchronized block
JavaLeaveMonitor ==
    /\ impl = "java"
    /\ \E i \in 1..Len(requests) :
        /\ requests[i].pc = "inMonitor"
        /\ IF requests[i].replayed
           THEN /\ requests' = [requests EXCEPT
                                    ![i] = Responded(impl, @,
                                               "countersigned token replay detected!")]
                /\ UNCHANGED replayCache
           ELSE /\ requests' = [requests EXCEPT ![i].pc = "guarded"]
                /\ replayCache' = replayCache \cup {requests[i].token}
    /\ monitor' = 0
    /\ UNCHANGED << impl, tokenRecords, issuedCount, lastCall, pending, tokenVars, codec, sdkVars >>

\* the rest of the handler: validation, record lookup, response
FinishRecover ==
    /\ \E i \in 1..Len(requests) :
        /\ requests[i].pc = "guarded"
        /\ requests' = [requests EXCEPT
              ![i] = Responded(impl, @,
                  IF impl = "js"
                  THEN jsRecoverResponse(requests[i].token, requests[i].state, tokenRecords,
                                         requests[i].replayed)
                  ELSE javaRecoverResponse(requests[i].token, requests[i].state, tokenRecords))]
    /\ UNCHANGED << impl, tokenRecords, issuedCount, lastCall, pending, replayCache, monitor,
                    tokenVars, codec, sdkVars >>

NextRecover ==
    \/ JsReplayGuard
    \/ JavaEnterMonitor
    \/ JavaLeaveMonitor
    \/ FinishRecover

SpecRecover == InitRecover /\ [][NextRecover]_vars

(***************************************************************************)
(* Properties of recover-account-return.                                   *)
(***************************************************************************)
\* requests are appended when they reach the replay test, so a lower index
\* is an earlier submission
EarlierSame(i) == {k \in 1..(i - 1) : requests[k].token = requests[i].token}

ReplayRefusals == {"Countersigned token replay detected!",
                   "countersigned token replay detected!"}

\* the submission is one the application should accept: the recovery
\* provider's countersigned token, for a confirmed record, with no state or
\* the state of the record's user
ValidSubmission(r) ==
    /\ r.token = CountersignedFor(FirstIssued(impl).token, RpOrigin, CountersignKey)
    /\ Len(tokenRecords) = 1
    /\ tokenRecords[1].status = "confirmed"
    /\ r.state \in {"", tokenRecords[1].username}

\* C11: a countersigned token string leads to success at most once: its
\* first submission succeeds when it is valid, and every later submission of
\* the same string is refused as a replay.
C11_ReplayRefused ==
    \A i \in 1..Len(requests) :
        requests[i].pc = "done" =>
            /\ EarlierSame(i) # {} => requests[i].response \in ReplayRefusals
            /\ (EarlierSame(i) = {} /\ ValidSubmission(requests[i]))
                   => requests[i].response = "success"
            /\ requests[i].response = "success" =>
                   \A k \in 1..Len(requests) :
                       (k # i /\ requests[k].token = requests[i].token)
                           => requests[k].response # "success"

\* a valid token was submitted twice: the first succeeded, the second was
\* refused as a replay
C11_Witness ==
    \E i, j \in 1..Len(requests) :
        /\ i < j
        /\ requests[i].token = requests[j].token
        /\ ValidSubmission(requests[j])
        /\ requests[i].response = "success"
        /\ requests[j].response \in ReplayRefusals

\* the request went past the replay test as a first submission
PassedReplayGuard(r) == r.pc \in {"guarded", "done"} /\ ~r.replayed

\* C12: of two requests with the same countersigned token handled
\* concurrently, at most one passes the replay guard, in every interleaving.
C12_GuardAtomic ==
    \A i, j \in 1..Len(requests) :
        (i # j /\ requests[i].token = requests[j].token)
            => ~(PassedReplayGuard(requests[i]) /\ PassedReplayGuard(requests[j]))

\* a second request with the same token went through the replay test while
\* the first was still being handled
C12_Witness ==
    \E i, j \in 1..Len(requests) :
        /\ impl = "java"
        /\ i < j
        /\ requests[i].token = requests[j].token
        /\ requests[i].pc = "guarded"
        /\ requests[j].pc = "done"
        /\ requests[j].replayed

\* the validator the handler calls accepts the token, for the token's issuer
\* and the keys of that issuer's configuration
PassedValidation(token) ==
    IF impl = "js"
    THEN /\ Value(extractIssuer(token)) = RpOrigin
         /\ fromSerialized(token, RpOrigin, ApOrigin, AllowedClockSkew, Some(<< >>),
                           CountersignPubKeys, Now).ok
    ELSE CountersignedRecoveryToken(token, Value(javaExtractIssuer(token)), ApOrigin,
                                    fetchConfiguration(Value(javaExtractIssuer(token))),
                                    AllowedClockSkew, Null, Now).ok

\* the records whose hash is hex(SHA-256(token.data))
RecordsOfInner(token) ==
    {n \in 1..Len(tokenRecords) :
        tokenRecords[n].hash = encodeHex(Sha256(Layout(token).data))}

\* C13: success is rendered only if the countersigned token passed
\* validation, was not a replay, and the record whose hash is
\* hex(SHA-256(token.data)) exists, is confirmed and, for a non-empty state,
\* has that username.
C13_SuccessOnlyIfRecorded ==
    \A i \in 1..Len(requests) :
        requests[i].response = "success" =>
            /\ PassedValidation(requests[i].token)
            /\ ~requests[i].replayed
            /\ EarlierSame(i) = {}
            /\ \E n \in RecordsOfInner(requests[i].token) :
                  /\ tokenRecords[n].status = "confirmed"
                  /\ requests[i].state # "" => tokenRecords[n].username = requests[i].state

(***************************************************************************)
(* The token codec on its own (SpecCodec): a token is constructed, its     *)
(* serialization is handed over intact or damaged, and is read back.       *)
(***************************************************************************)
\* the standard base64 alphabet, as character codes
Base64Char(v) ==
    IF v < 26 THEN 65 + v
    ELSE IF v < 52 THEN 97 + (v - 26)
    ELSE IF v < 62 THEN 48 + (v - 52)
    ELSE IF v = 62 THEN 43 ELSE 47

IsBase64Char(c) ==
    \/ c \in 65..90
    \/ c \in 97..122
    \/ c \in 48..57
    \/ c = 43
    \/ c = 47

\* the inverse of Base64Char
Base64Value(c) ==
    IF c \in 65..90 THEN c - 65
    ELSE IF c \in 97..122 THEN c - 97 + 26
    ELSE IF c \in 48..57 THEN c - 48 + 52
    ELSE IF c = 43 THEN 62 ELSE 63

\* buffer.toString('base64') / Base64.getEncoder().encodeToString(bytes):
\* three bytes to four characters, '=' padding
toBase64(bytes) ==
    LET n == Len(bytes)
        Byte(k) == IF k <= n THEN bytes[k] ELSE 0
        CharAt(i) ==
            LET first == 3 * ((i - 1) \div 4) + 1
                b1 == Byte(first)
                b2 == Byte(first + 1)
                b3 == Byte(first + 2)
            IN  CASE (i - 1) % 4 = 0 -> Base64Char(b1 \div 4)
                  [] (i - 1) % 4 = 1 -> Base64Char((b1 % 4) * 16 + b2 \div 16)
                  [] (i - 1) % 4 = 2 -> IF first + 1 > n THEN 61
                                        ELSE Base64Char((b2 % 16) * 4 + b3 \div 64)
                  [] OTHER -> IF first + 2 > n THEN 61 ELSE Base64Char(b3 % 64)
    IN  [i \in 1..(4 * ((n + 2) \div 3)) |-> CharAt(i)]

\* new Buffer(string, 'base64'): the alphabet characters, six bits each,
\* regrouped into bytes
fromBase64(text) ==
    LET sextets == SelectSeq(text, IsBase64Char)
        Sextet(k) == Base64Value(sextets[k])
        ByteAt(j) ==
            LET q == (8 * (j - 1)) \div 6 + 1
            IN  CASE (8 * (j - 1)) % 6 = 0 -> Sextet(q) * 4 + Sextet(q + 1) \div 16
                  [] (8 * (j - 1)) % 6 = 2 -> (Sextet(q) % 16) * 16 + Sextet(q + 1) \div 4
                  [] OTHER -> (Sextet(q) % 4) * 64 + Sextet(q + 1)
    IN  [j \in 1..((6 * Len(sextets)) \div 8) |-> ByteAt(j)]

\* Base64.getDecoder().decode(encoded): Null (IllegalArgumentException)
\* unless the text is a base64 encoding
javaBase64Decode(encoded) ==
    LET decoded == fromBase64(encoded)
    IN  IF toBase64(decoded) = encoded THEN Some(decoded) ELSE Null

\* the argument of RecoveryToken.deserialize: a Buffer, a string primitive
\* or a String object
Argument(type, value) == [type |-> type, value |-> value]

\* RecoveryToken.deserialize from its first line: only an argument that is
\* instanceof String is base64-decoded, and the reads that follow are Buffer
\* methods
deserializeArgument(serialized) ==
    CASE serialized.type = "String" -> deserialize(fromBase64(serialized.value))
      [] serialized.type = "Buffer" -> deserialize(serialized.value)
      \* serialized.readUInt8 is not a function
      [] OTHER -> [ok |-> FALSE]

\* RecoveryToken.fromSerialized after deserialize: the checks and the
\* constructor call with the fields read
RecoveryTokenFromFields(fields) ==
    IF fields.version # VERSION THEN [ok |-> FALSE, err |-> "incorrect version"]
    ELSE IF fields.type # TYPE_RECOVERY_TOKEN THEN [ok |-> FALSE, err |-> "incorrect type"]
    ELSE RecoveryTokenNew(NoKey, fields.id, fields.options, fields.issuer, fields.audience,
                          fields.issuedTime, Some(fields.data), Some(fields.binding),
                          fields.signature, Now)

\* RecoveryToken(String encoded) up to the sanity checks
\* CountersignedRecoveryToken.extractIssuer(encoded): the issuer, or nothing
\* when the decoder or a read throws
javaExtractIssuerEncoded(encoded) ==
    IF IsNull(javaBase64Decode(encoded)) THEN Null
    ELSE javaExtractIssuer(Value(javaBase64Decode(encoded)))

javaParseEncoded(encoded) ==
    LET decoded == javaBase64Decode(encoded)
    IN  IF IsNull(decoded) THEN [ok |-> FALSE] ELSE javaParse(Value(decoded))

\* data fields: up to MaxPayload bytes, none of them ASCII
CodecData == {[i \in 1..n |-> 200 + i] : n \in 0..MaxPayload}
\* a signature handed to the constructor instead of a key
GivenSignature == << DER_SEQUENCE, 1, 7 >>
\* how much a damaged length field declares beyond the bytes that remain
Excess == {1, 300}

\* the offsets of the five length fields of a serialization built from
\* fields of the given lengths
LengthFieldAt(token, k) ==
    CASE k = 1 -> 19
      [] k = 2 -> 21 + Len(token.issuer)
      [] k = 3 -> 23 + Len(token.issuer) + Len(token.audience)
      [] k = 4 -> 25 + Len(token.issuer) + Len(token.audience) + Len(token.issuedTime)
      [] OTHER -> 27 + Len(token.issuer) + Len(token.audience) + Len(token.issuedTime)
                     + Len(token.data)

InitCodec ==
    /\ TokenIdle
    /\ AppNotStarted
    /\ codec = NoCodec
    /\ SdkIdle

\* new RecoveryToken(privateKey, id, options, issuer, audience, issuedTime,
\* data, binding, signature) for a valid field tuple
Construct ==
    /\ codec.stage = "idle"
    /\ \E privateKey \in PrivateKeys \cup {NoKey}, options \in {0, STATUS_REQUESTED_FLAG},
          data \in CodecData, binding \in Bindings :
        LET token == RecoveryTokenNew(privateKey, TokenId, options, ApOrigin, RpOrigin,
                                      toISOString(Now), Some(data), Some(binding),
                                      GivenSignature, Now)
        IN  codec' = [stage |-> "serialized", token |-> token, bytes |-> token.encoded,
                      damage |-> "none", reader |-> "none", type |-> "none",
                      result |-> [ok |-> FALSE], extracted |-> Null]
    /\ UNCHANGED << tokenVars, appVars, sdkVars >>

\* the serialization is cut short
CutShort ==
    /\ codec.stage = "serialized"
    /\ codec.damage = "none"
    /\ \E n \in 0..(Len(codec.bytes) - 1) :
        codec' = [codec EXCEPT !.bytes = SubSeq(codec.bytes, 1, n), !.damage = "cut"]
    /\ UNCHANGED << tokenVars, appVars, sdkVars >>

\* one of the five length fields declares more than the bytes that remain
OverrunLength ==
    /\ codec.stage = "serialized"
    /\ codec.damage = "none"
    /\ \E k \in 1..5, excess \in Excess :
        LET at == LengthFieldAt(codec.token, k)
            declared == UInt16BE(Len(codec.bytes) - (at + 2) + excess)
        IN  codec' = [codec EXCEPT !.bytes = [codec.bytes EXCEPT ![at + 1] = declared[1],
                                                                  ![at + 2] = declared[2]],
                                   !.damage = "length"]
    /\ UNCHANGED << tokenVars, appVars, sdkVars >>

\* RecoveryToken.deserialize(serialized) with the serialization as a Buffer,
\* as the string in token.encoded, or as a String object of it, and
\* extractIssuer(tokenBase64) on the string
Deserialize ==
    /\ codec.stage = "serialized"
    /\ \E type \in {"Buffer", "string", "String"} :
        codec' = [codec EXCEPT
            !.stage = "deserialized",
            !.reader = "js",
            !.type = type,
            !.result = deserializeArgument(
                           Argument(type, IF type = "Buffer" THEN codec.bytes
                                          ELSE toBase64(codec.bytes))),
            !.extracted = extractIssuer(fromBase64(toBase64(codec.bytes)))]
    /\ UNCHANGED << tokenVars, appVars, sdkVars >>

\* new RecoveryToken(encoded) of the Java SDK, and
\* CountersignedRecoveryToken.extractIssuer(encoded)
JavaParse ==
    /\ codec.stage = "serialized"
    /\ codec' = [codec EXCEPT !.stage = "deserialized",
                              !.reader = "java",
                              !.type = "String",
                              !.result = javaParseEncoded(toBase64(codec.bytes)),
                              !.extracted = javaExtractIssuerEncoded(toBase64(codec.bytes))]
    /\ UNCHANGED << tokenVars, appVars, sdkVars >>

\* the fields read are given back to the constructor
Reserialize ==
    /\ codec.stage = "deserialized"
    /\ codec.reader = "js"
    /\ codec.result.ok
    /\ codec' = [codec EXCEPT !.stage = "reserialized",
                              !.result = RecoveryTokenFromFields(codec.result)]
    /\ UNCHANGED << tokenVars, appVars, sdkVars >>

NextCodec ==
    \/ Construct
    \/ CutShort
    \/ OverrunLength
    \/ Deserialize
    \/ JavaParse
    \/ Reserialize

SpecCodec == InitCodec /\ [][NextCodec]_vars

(***************************************************************************)
(* Properties of the codec.                                                *)
(***************************************************************************)
\* the field tuple of a token or of the result of deserialize
FieldTuple(t) ==
    << t.version, t.type, t.id, t.options, t.issuer, t.audience, t.issuedTime, t.data,
       t.binding, t.signature >>

\* C19: deserializing the serialization of a token returns the token's
\* field tuple, and serializing that tuple again returns the same bytes, for
\* every valid tuple, empty data and binding included.
C19_RoundTrip ==
    /\ (codec.stage = "deserialized" /\ codec.reader = "js" /\ codec.damage = "none")
           => /\ codec.result.ok
              /\ FieldTuple(codec.result) = FieldTuple(codec.token)
    /\ (codec.stage = "reserialized" /\ codec.damage = "none")
           => /\ codec.result.ok
              /\ codec.result.encoded = codec.token.encoded
              /\ toBase64(codec.result.encoded) = toBase64(codec.token.encoded)

\* the byte sequence is cut inside the fixed header, or one of its five
\* length fields declares more than the bytes that remain after it
ClaimedMalformed(bytes) ==
    LET U16(at) == bytes[at + 1] * 256 + bytes[at + 2]
        Readable(at) == at + 2 <= Len(bytes)
        Overrun(at) == Readable(at) /\ at + 2 + U16(at) > Len(bytes)
        After(at) == at + 2 + U16(at)
        Within(at) == Readable(at) /\ ~Overrun(at)
        a1 == 19
        a2 == After(a1)
        a3 == After(a2)
        a4 == After(a3)
        a5 == After(a4)
    IN  \/ Len(bytes) < 19
        \/ Overrun(a1)
        \/ Within(a1) /\ Overrun(a2)
        \/ Within(a1) /\ Within(a2) /\ Overrun(a3)
        \/ Within(a1) /\ Within(a2) /\ Within(a3) /\ Overrun(a4)
        \/ Within(a1) /\ Within(a2) /\ Within(a3) /\ Within(a4) /\ Overrun(a5)

\* C20: deserialization fails, and yields no fields, for every byte
\* sequence cut inside the fixed header or with one of the five declared
\* lengths beyond the bytes remaining, the binding length included.
C20_MalformedRejected ==
    (codec.stage = "deserialized" /\ ClaimedMalformed(codec.bytes)) => ~codec.result.ok

(***************************************************************************)
(* The RecoveryToken constructors on their own (SpecConstruct).            *)
(***************************************************************************)
\* a data or binding argument of n bytes
FieldOfLength(n) == [i \in 1..n |-> 0]

\* id arguments: 16 bytes, one fewer, one more, none
ConstructIds == {TokenId, SubSeq(TokenId, 1, ID_LENGTH - 1), TokenId \o << 0 >>, << >>}

\* issuer and audience arguments: an origin, the origin with a trailing
\* slash, with another scheme, with an upper-case host
OriginArguments(origin) ==
    {origin,
     origin \o << 47 >>,
     << 104, 116, 116, 112, 58, 47, 47 >> \o SubSeq(origin, Len(HttpsScheme) + 1, Len(origin)),
     HttpsScheme \o << 65 >> \o SubSeq(origin, Len(HttpsScheme) + 2, Len(origin))}

\* data and binding arguments: absent, empty, one byte, the longest a
\* 16-bit length describes, and one byte more; each given by its length
FieldArguments == {Null} \cup {Some(n) : n \in {0, 1, UINT16_MAX, UINT16_MAX + 1}}

FieldArgument(length) == IF IsNull(length) THEN Null ELSE Some(FieldOfLength(Value(length)))

\* what a constructor call gave: the error, or the header fields, the five
\* length prefixes in the serialization and the lengths of the fields
\* written after them
Constructed(token) ==
    IF ~token.ok THEN [ok |-> FALSE, err |-> token.err]
    ELSE [ok |-> TRUE, err |-> "",
          version |-> token.encoded[1],
          type |-> token.encoded[2],
          idLength |-> Len(token.id),
          declared |-> [k \in 1..5 |-> ReadUInt16BE(token.encoded, LengthFieldAt(token, k))],
          written |-> << Len(token.issuer), Len(token.audience), Len(token.issuedTime),
                         Len(token.data), Len(token.binding) >>,
          rawLength |-> Len(token.encoded) - Len(token.signature)]

ConstructorCall(kind, id, issuer, audience, data, binding, token) ==
    [op |-> "RecoveryToken", impl |-> kind, id |-> id, issuer |-> issuer,
     audience |-> audience, data |-> data, binding |-> binding,
     result |-> Constructed(token)]

InitConstruct ==
    /\ TokenIdle
    /\ AppNotStarted
    /\ codec = NoCodec
    /\ SdkIdle

\* new RecoveryToken(privateKey, id, options, issuer, audience, issuedTime,
\* data, binding) of the JavaScript SDK
NewRecoveryToken ==
    /\ sdk.op = "none"
    /\ \E id \in ConstructIds, issuer \in OriginArguments(ApOrigin),
          audience \in OriginArguments(RpOrigin), data \in FieldArguments,
          binding \in FieldArguments :
        sdk' = ConstructorCall("js", id, issuer, audience, data, binding,
                   RecoveryTokenNew(recoveryPrivKey, id, STATUS_REQUESTED_FLAG, issuer,
                                    audience, toISOString(Now), FieldArgument(data),
                                    FieldArgument(binding), << >>, Now))
    /\ UNCHANGED << tokenVars, appVars, codec, http, configCache >>

\* new RecoveryToken(privateKey, id, options, issuer, audience, data,
\* binding) of the Java SDK
JavaNewRecoveryToken ==
    /\ sdk.op = "none"
    /\ \E id \in ConstructIds, issuer \in OriginArguments(ApOrigin),
          audience \in OriginArguments(RpOrigin), data \in FieldArguments,
          binding \in FieldArguments :
        sdk' = ConstructorCall("java", id, issuer, audience, data, binding,
                   javaRecoveryTokenNew(recoveryPrivKey, id, STATUS_REQUESTED_FLAG, issuer,
                                        audience, FieldArgument(data),
                                        FieldArgument(binding), Now))
    /\ UNCHANGED << tokenVars, appVars, codec, http, configCache >>

\* new RecoveryToken(encoded) of the Java SDK: the fields it reads, or the
\* exception of the decoder, of the reads or of the sanity checks
javaRecoveryTokenFromEncoded(encoded) ==
    LET decoded == javaBase64Decode(encoded)
    IN  IF IsNull(decoded) THEN [ok |-> FALSE, err |-> "IllegalArgumentException"]
        ELSE IF ~javaRecoveryToken(Value(decoded)).ok THEN javaRecoveryToken(Value(decoded))
        ELSE javaParse(Value(decoded))

\* the fields of a token object
TokenFields(token) ==
    << token.version, token.type, token.id, token.options, token.issuer, token.audience,
       token.issuedTime, token.data, token.binding, token.signature >>

\* a token is made by the signing constructor of the Java SDK and
\* getEncoded() is handed to new RecoveryToken(encoded)
JavaReadBack ==
    /\ sdk.op = "none"
    /\ \E privateKey \in PrivateKeys, data \in CodecData, binding \in Bindings,
          options \in {0, STATUS_REQUESTED_FLAG} :
        LET token == javaRecoveryTokenNew(privateKey, TokenId, options, ApOrigin, RpOrigin,
                                          Some(data), Some(binding), Now)
        IN  sdk' = [op |-> "readBack", impl |-> "java",
                    original |-> TokenFields(token),
                    getEncoded |-> toBase64(token.encoded),
                    parsed |-> javaParseEncoded(toBase64(token.encoded)),
                    result |-> javaRecoveryTokenFromEncoded(toBase64(token.encoded))]
    /\ UNCHANGED << tokenVars, appVars, codec, http, configCache >>

NextConstruct ==
    \/ NewRecoveryToken
    \/ JavaNewRecoveryToken
    \/ JavaReadBack

SpecConstruct == InitConstruct /\ [][NextConstruct]_vars

\* the field arguments of the call that are longer than a 16-bit length
\* can describe
TooLong(call) ==
    {f \in {call.data, call.binding} : ~IsNull(f) /\ Value(f) > UINT16_MAX}

\* C21: every 16-bit length prefix written is the byte length of the field
\* after it, and a field longer than 65535 bytes makes the constructor fail
\* instead of being written with its length modulo 2^16.
C21_LengthPrefixExact ==
    sdk.op = "RecoveryToken" =>
        /\ sdk.result.ok => \A k \in 1..5 : sdk.result.declared[k] = sdk.result.written[k]
        /\ TooLong(sdk) # {} => ~sdk.result.ok

(***************************************************************************)
(* The origin validators on their own (SpecOrigin).                        *)
(***************************************************************************)
\* how many labels the hosts tried have before the TLD
MaxLabels == 2

Repeat(c, n) == [i \in 1..n |-> c]

\* Flatten(<< s1, ..., sn >>) = s1 \o ... \o sn
RECURSIVE Flatten(_)
Flatten(parts) == IF Len(parts) = 0 THEN << >> ELSE Head(parts) \o Flatten(Tail(parts))

\* schemes: "https://", "http://", "HTTPS://"
SchemeChoices == {HttpsScheme, << 104, 116, 116, 112, 58, 47, 47 >>,
                  << 72, 84, 84, 80, 83, 58, 47, 47 >>}
\* labels, each followed by its '.': "a", empty, "A", 63 characters ending
\* in "-1", 64 characters
LabelChoices == {<< 97, 46 >>, << 46 >>, << 65, 46 >>,
                 Repeat(97, 61) \o << 45, 49, 46 >>, Repeat(97, 64) \o << 46 >>}
\* TLDs: "b", "bc", "b1", "BC", 63 and 64 letters
TldChoices == {<< 98 >>, << 98, 99 >>, << 98, 49 >>, << 66, 67 >>, Repeat(98, 63),
               Repeat(98, 64)}
\* ports: none, ":", ":8", ":80", ":8a", and ":" with ARABIC-INDIC DIGIT ONE
PortChoices == {<< >>, << 58 >>, << 58, 56 >>, << 58, 56, 48 >>, << 58, 56, 97 >>,
                << 58, 1633 >>}
\* what follows: nothing, "/", "/p", "?q", "#f", "\n", "\r\n"
SuffixChoices == {<< >>, << 47 >>, << 47, 112 >>, << 63, 113 >>, << 35, 102 >>, << 10 >>,
                  << 13, 10 >>}

InitOrigin ==
    /\ TokenIdle
    /\ AppNotStarted
    /\ codec = NoCodec
    /\ SdkIdle

\* both validators are asked about a string and about the string followed
\* by "/"
ValidateOrigin ==
    /\ sdk.op = "none"
    /\ \E scheme \in SchemeChoices, n \in 0..MaxLabels, tld \in TldChoices,
          port \in PortChoices, suffix \in SuffixChoices :
        \E labels \in [1..n -> LabelChoices] :
            LET origin == scheme \o Flatten(labels) \o tld \o port \o suffix
            IN  sdk' = [op |-> "validateOrigin",
                        origin |-> origin,
                        js |-> originRegex(origin),
                        java |-> validateOrigin(origin),
                        jsWithSlash |-> originRegex(origin \o << 47 >>),
                        javaWithSlash |-> validateOrigin(origin \o << 47 >>)]
    /\ UNCHANGED << tokenVars, appVars, codec, http, configCache >>

NextOrigin == ValidateOrigin

SpecOrigin == InitOrigin /\ [][NextOrigin]_vars

\* the grammar read off the positions of the dots: hostEnd is the last
\* position before the first ':' (or the end), every dot closes a label of
\* 1..63 label characters, and what follows the last dot is the TLD
OriginGrammar(s) ==
    LET start == 9
        colons == {i \in start..Len(s) : s[i] = 58}
        hostEnd == IF colons = {} THEN Len(s)
                   ELSE (CHOOSE i \in colons : \A j \in colons : i <= j) - 1
        dots == {i \in start..hostEnd : s[i] = 46}
        LabelStart(d) == IF \E e \in dots : e < d
                         THEN (CHOOSE e \in dots : e < d /\ \A f \in dots : f < d => f <= e) + 1
                         ELSE start
        lastDot == CHOOSE d \in dots : \A e \in dots : e <= d
    IN  /\ Len(s) >= 8
        /\ SubSeq(s, 1, 8) = << 104, 116, 116, 112, 115, 58, 47, 47 >>
        /\ dots # {}
        /\ \A d \in dots :
              /\ d - LabelStart(d) \in 1..63
              /\ \A i \in LabelStart(d)..(d - 1) : s[i] \in (97..122) \cup (48..57) \cup {45}
        /\ hostEnd - lastDot \in 2..63
        /\ \A i \in (lastDot + 1)..hostEnd : s[i] \in 97..122
        /\ hostEnd < Len(s) => /\ hostEnd + 1 < Len(s)
                               /\ \A i \in (hostEnd + 2)..Len(s) : s[i] \in 48..57

\* the string has something the grammar excludes: a slash, query or
\* fragment after the scheme, an upper-case letter, or another scheme
Excluded(s) ==
    \/ \E i \in 9..Len(s) : s[i] \in {47, 63, 35}
    \/ \E i \in 1..Len(s) : s[i] \in 65..90
    \/ Len(s) < 8
    \/ SubSeq(s, 1, 8) # << 104, 116, 116, 112, 115, 58, 47, 47 >>

\* C26: the validators accept exactly the strings of the origin grammar, so
\* they reject a trailing slash, a path, query or fragment, an upper-case
\* letter and another scheme, and never accept both o and o + "/"; the
\* JavaScript and the Java validator give the same answer on every string.
C26_OriginGrammar ==
    sdk.op = "validateOrigin" =>
        /\ sdk.js = OriginGrammar(sdk.origin)
        /\ sdk.java = sdk.js
        /\ sdk.javaWithSlash = sdk.jsWithSlash
        /\ Excluded(sdk.origin) => ~sdk.js
        /\ sdk.js => ~sdk.jsWithSlash

\* an origin with a 63-character label and a port was accepted by both, and
\* refused by both with a slash after it
C26_Witness ==
    /\ sdk.op = "validateOrigin"
    /\ sdk.js
    /\ sdk.java
    /\ ~sdk.jsWithSlash
    /\ ~sdk.javaWithSlash
    /\ Len(sdk.origin) > 63
    /\ \E i \in 1..Len(sdk.origin) : sdk.origin[i] = 58 /\ i > 8

(***************************************************************************)
(* Properties of the constructors that refer to the origin grammar.        *)
(***************************************************************************)
\* C27: the constructor fails, giving no token and no serialization, when
\* the id is not 16 bytes or the issuer or audience is outside the origin
\* grammar; a token it gives has version 0x00, type 0x00 and a 16-byte id.
C27_ConstructorRejects ==
    sdk.op = "RecoveryToken" =>
        /\ (\/ Len(sdk.id) # 16
            \/ ~OriginGrammar(sdk.issuer)
            \/ ~OriginGrammar(sdk.audience)) => ~sdk.result.ok
        /\ sdk.result.ok => /\ sdk.result.version = 0
                            /\ sdk.result.type = 0
                            /\ sdk.result.idLength = 16

\* the Java constructor refused an audience with a trailing slash, all else
\* being in order
C27_Witness ==
    /\ sdk.op = "RecoveryToken"
    /\ sdk.impl = "java"
    /\ Len(sdk.id) = 16
    /\ sdk.issuer = ApOrigin
    /\ sdk.audience = RpOrigin \o << 47 >>
    /\ sdk.data = Some(0)
    /\ sdk.binding = Some(0)
    /\ ~sdk.result.ok

\* C28: the constructor accepts absent data and binding and treats each as
\* empty: the token has data_length 0 and binding_length 0.
C28_AbsentMeansEmpty ==
    (/\ sdk.op = "RecoveryToken"
     /\ IsNull(sdk.data) \/ IsNull(sdk.binding)
     /\ TooLong(sdk) = {}
     /\ Len(sdk.id) = 16
     /\ OriginGrammar(sdk.issuer)
     /\ OriginGrammar(sdk.audience))
        => /\ sdk.result.ok
           /\ IsNull(sdk.data) => sdk.result.declared[4] = 0
           /\ IsNull(sdk.binding) => sdk.result.declared[5] = 0

(***************************************************************************)
(* The HTTP surface of the example applications (SpecHttp): which handler  *)
(* answers a request, and with which headers.                              *)
(***************************************************************************)
NoHeaders == [strictTransportSecurity |-> "", xFrameOptions |-> "", cacheControl |-> "",
              accessControlAllowOrigin |-> ""]

\* the routes of both applications, by name
RoutePaths == {"default", "saveToken", "saveTokenReturn", "invalidateToken",
               "recoverIdentifyAccount", "renewToken", "recoverAccountReturn",
               "tokenStatus"}
\* CONFIG_PATH, and a file under /static (the icon, the privacy policy)
RequestPaths == RoutePaths \cup {"config", "static"}

Hostnames == {"localhost", "a.bc"}
\* the X-Forwarded-Proto request header: absent, https, http
ForwardedProtos == {Null, Some("https"), Some("http")}

HttpRequest(path, hostname, forwardedProto) ==
    [path |-> path, hostname |-> hostname, forwardedProto |-> forwardedProto]

HttpResponse(status, headers, by) == [status |-> status, headers |-> headers, by |-> by]

\* the app.all('*') filter of the JavaScript application and the first
\* before() filter of the Java application: the headers they set
FilterHeaders(path, headers) ==
    [headers EXCEPT
        !.strictTransportSecurity = "max-age=3600000; includeSubDomains",
        !.xFrameOptions = "DENY",
        !.cacheControl = IF path # "config" THEN "no-store, must-revalidate" ELSE @]

\* JavaScript values of an option: not supplied, null, a number
Undefined == [type |-> "undefined", number |-> 0]
JsNull == [type |-> "null", number |-> 0]
JsNumber(n) == [type |-> "number", number |-> n]

\* a value in a template literal: `${value}`
TemplateString(value) ==
    IF value.type = "number" THEN ToString(value.number) ELSE value.type

\* middleware(options) of index.js for CONFIG_PATH: the headers it sets
middlewareHeaders(options) ==
    LET maxAge == IF options.configMaxAge = JsNull THEN JsNumber(3600)
                  ELSE options.configMaxAge
    IN  [NoHeaders EXCEPT !.cacheControl = "public, max-age=" \o TemplateString(maxAge),
                          !.accessControlAllowOrigin = "*"]

\* the options the example application mounts the middleware with
AppMiddlewareOptions == [configMaxAge |-> JsNumber(6000)]

\* the JavaScript application: express.static, then the SDK middleware,
\* then the filter, then the routes, in the order they are registered; the
\* first that answers ends the chain
jsRespond(req) ==
    IF req.path = "static"
    THEN HttpResponse(200, NoHeaders, "express.static")
    ELSE IF req.path = "config"
    THEN HttpResponse(200, middlewareHeaders(AppMiddlewareOptions), "middleware")
    ELSE LET headers == FilterHeaders(req.path, NoHeaders)
         IN  \* forwardedProto !== null && forwardedProto !== 'https', the
             \* absent header being undefined
             IF req.hostname # "localhost" /\ req.forwardedProto # Some("https")
             THEN IF req.path \in {"config", "recoverAccountReturn"}
                  THEN HttpResponse(401, headers, "filter")
                  ELSE HttpResponse(302, headers, "filter")
             ELSE HttpResponse(200, headers, "route")

\* the Java application: the two before() filters, then the route
javaRespond(req) ==
    LET headers == FilterHeaders(req.path, NoHeaders)
    IN  IF ~IsNull(req.forwardedProto) /\ req.forwardedProto # Some("https")
        THEN IF req.path \in {"config", "recoverAccountReturn"}
             THEN HttpResponse(401, headers, "filter")
             ELSE HttpResponse(301, headers, "filter")
        ELSE IF req.path = "config"
        THEN HttpResponse(200, [headers EXCEPT !.cacheControl = "max-age=60"], "route")
        ELSE HttpResponse(200, headers, "route")

InitHttp ==
    /\ TokenIdle
    /\ AppNotStarted
    /\ codec = NoCodec
    /\ SdkIdle

\* the JavaScript application answers a request
JsServe ==
    /\ \E path \in RequestPaths, hostname \in Hostnames, forwardedProto \in ForwardedProtos :
        LET req == HttpRequest(path, hostname, forwardedProto)
        IN  http' = [path |-> path, impl |-> "js", request |-> req,
                     response |-> jsRespond(req)]
    /\ UNCHANGED << tokenVars, appVars, codec, sdk, configCache >>

\* the Java application answers a request to one of its routes
JavaServe ==
    /\ \E path \in RequestPaths \ {"static"}, hostname \in Hostnames,
          forwardedProto \in ForwardedProtos :
        LET req == HttpRequest(path, hostname, forwardedProto)
        IN  http' = [path |-> path, impl |-> "java", request |-> req,
                     response |-> javaRespond(req)]
    /\ UNCHANGED << tokenVars, appVars, codec, sdk, configCache >>

NextHttp ==
    \/ JsServe
    \/ JavaServe

SpecHttp == InitHttp /\ [][NextHttp]_vars

\* C22: every response carries Strict-Transport-Security: max-age=3600000;
\* includeSubDomains and X-Frame-Options: DENY, the configuration
\* endpoint's included, and every response but the configuration
\* endpoint's carries Cache-Control: no-store, must-revalidate.
C22_SecurityHeaders ==
    http.path # "none" =>
        /\ http.response.headers.strictTransportSecurity
               = "max-age=3600000; includeSubDomains"
        /\ http.response.headers.xFrameOptions = "DENY"
        /\ http.path # "config"
               => http.response.headers.cacheControl = "no-store, must-revalidate"


(***************************************************************************)
(* Fetching a configuration                                                *)
(* sdk/js-src/index.js fetchConfiguration;                                 *)
(* sdk/java-src: DelegatedRecoveryUtils.fetchConfiguration,                *)
(* DelegatedRecoveryConfiguration, AccountProviderConfiguration,           *)
(* RecoveryProviderConfiguration                                           *)
(***************************************************************************)

\* String.prototype.toLowerCase on the characters of an origin
toLowerCase(s) == [i \in 1..Len(s) |-> IF s[i] \in 65..90 THEN s[i] + 32 ELSE s[i]]

\* seconds a configuration is good for when nothing else is said
DEFAULT_EXPIRY == 60 * 60

\* what the server at the well-known location answers: whether the
\* connection succeeds, the status, the max-age of the Cache-Control header
\* (seconds, if given), and the body: whether it is JSON and, of its
\* fields, the issuer and whether icon-152px and
\* save-token-async-api-iframe are there (the other fields are there)
StatusCodes == {200, 404, 500}
MaxAges == {Null, Some(60), Some(6000)}
IssuerChoices == {Null, Some(RpOrigin), Some(RpOrigin \o << 47 >>),
                  Some(<< 72, 84, 84, 80, 83, 58, 47, 47, 82, 46, 68, 69 >>)}
NotJson == [json |-> FALSE, issuer |-> Null, icon |-> FALSE, iframe |-> FALSE]
ConfigBodies ==
    {NotJson} \cup {[json |-> TRUE, issuer |-> issuer, icon |-> icon, iframe |-> iframe] :
                        issuer \in IssuerChoices, icon \in BOOLEAN, iframe \in BOOLEAN}
NetworkError == [network |-> "error", status |-> 0, maxAge |-> Null, body |-> NotJson]
Responses ==
    {NetworkError} \cup {[network |-> "ok", status |-> status, maxAge |-> maxAge, body |-> body] :
                            status \in StatusCodes, maxAge \in MaxAges, body \in ConfigBodies}

\* the origins fetchConfiguration is called with: an origin, and the same
\* with a trailing slash
FetchOrigins == {RpOrigin, RpOrigin \o << 47 >>}
\* the times (ms) of a fetch, and how long after it the configuration is
\* used: around the max-ages and around the default
FetchTimes == {0, 1000}
Delays == {0, 60000, 60001, 3600000, 3600001, 6000000, 6000001}

\* a promise is settled by the first call of resolve or reject; later calls
\* do nothing
Settle(calls) == Head(calls)

\* fetchConfiguration(origin, options) of index.js: what the promise
\* settles to
jsFetchConfiguration(origin, response) ==
    IF response.network = "error"
    THEN [ok |-> FALSE, err |-> "Couldn't fetch configuration"]
    ELSE IF ~response.body.json \/ IsNull(response.body.issuer)
    THEN [ok |-> FALSE, err |-> "Couldn't parse configuration"]
    ELSE LET issuer == toLowerCase(Value(response.body.issuer))
             json == [ok |-> TRUE, issuer |-> issuer, icon |-> response.body.icon,
                      iframe |-> response.body.iframe]
         IN  Settle((IF ~originRegex(issuer)
                     THEN << [ok |-> FALSE, err |-> "Malformed origin for issuer in config"] >>
                     ELSE << >>) \o << json >>)

\* DelegatedRecoveryConfiguration(JsonObject) and the constructors of its
\* two subclasses
javaConfiguration(type, json, now) ==
    IF IsNull(json.issuer) THEN [ok |-> FALSE, err |-> "NullPointerException"]
    ELSE IF ~validateOrigin(Value(json.issuer)) THEN [ok |-> FALSE, err |-> "InvalidOriginException"]
    ELSE IF type = "RECOVERY_PROVIDER" /\ ~json.iframe
    THEN [ok |-> FALSE, err |-> "NullPointerException"]
    ELSE [ok |-> TRUE, type |-> type, issuer |-> Value(json.issuer),
          icon152px |-> IF json.icon THEN Some("icon") ELSE Null,
          expires |-> now + secondsTimes1000(DEFAULT_EXPIRY)]

\* DelegatedRecoveryUtils.fetchConfiguration(origin, type); openStream()
\* throws for a failed connection and for a status of 400 and above
javaFetchConfiguration(origin, type, response, now) ==
    IF ~validateOrigin(origin) THEN [ok |-> FALSE, err |-> "InvalidOriginException"]
    ELSE IF response.network = "error" \/ response.status >= 400
    THEN [ok |-> FALSE, err |-> "IOException"]
    ELSE IF ~response.body.json THEN [ok |-> FALSE, err |-> "JsonParsingException"]
    ELSE javaConfiguration(type, response.body, now)

\* setMaxAge(maxAge): the new expiry
setMaxAge(maxAge, now) == now + secondsTimes1000(maxAge)

\* isExpired(): new Date().after(expires)
isExpired(config, now) == now > config.expires

\* toString() of AccountProviderConfiguration calls getIcon152px().toString();
\* that of RecoveryProviderConfiguration appends the fields
configToString(config) ==
    IF config.type = "ACCOUNT_PROVIDER" /\ IsNull(config.icon152px)
    THEN [ok |-> FALSE, err |-> "NullPointerException"]
    ELSE [ok |-> TRUE]

InitConfig ==
    /\ TokenIdle
    /\ AppNotStarted
    /\ codec = NoCodec
    /\ SdkIdle

JsFetchConfiguration ==
    /\ sdk.op = "none"
    /\ \E origin \in FetchOrigins, response \in Responses, now \in FetchTimes :
        sdk' = [op |-> "fetchConfiguration", impl |-> "js", origin |-> origin,
                response |-> response, time |-> now,
                result |-> jsFetchConfiguration(origin, response), later |-> Null]
    /\ UNCHANGED << tokenVars, appVars, codec, http, configCache >>

JavaFetchConfiguration ==
    /\ sdk.op = "none"
    /\ \E origin \in FetchOrigins, response \in Responses, now \in FetchTimes,
          type \in {"ACCOUNT_PROVIDER", "RECOVERY_PROVIDER"} :
        sdk' = [op |-> "fetchConfiguration", impl |-> "java", origin |-> origin,
                response |-> response, time |-> now,
                result |-> javaFetchConfiguration(origin, type, response, now),
                later |-> Null]
    /\ UNCHANGED << tokenVars, appVars, codec, http, configCache >>

\* the operations on a configuration that was fetched
Fetched == sdk.op = "fetchConfiguration" /\ sdk.impl = "java" /\ sdk.result.ok /\ IsNull(sdk.later)

JavaIsExpired ==
    /\ Fetched
    /\ \E delay \in Delays :
        sdk' = [sdk EXCEPT !.later = Some([op |-> "isExpired", now |-> sdk.time + delay,
                                           ok |-> TRUE,
                                           expired |-> isExpired(sdk.result, sdk.time + delay)])]
    /\ UNCHANGED << tokenVars, appVars, codec, http, configCache >>

JavaSetMaxAge ==
    /\ Fetched
    /\ \E delay \in Delays, maxAge \in {60, 6000, 2147484} :
        sdk' = [sdk EXCEPT !.later = Some([op |-> "setMaxAge", now |-> sdk.time + delay,
                                           ok |-> TRUE, maxAge |-> maxAge,
                                           expires |-> setMaxAge(maxAge, sdk.time + delay)])]
    /\ UNCHANGED << tokenVars, appVars, codec, http, configCache >>

JavaToString ==
    /\ Fetched
    /\ sdk' = [sdk EXCEPT !.later = Some([op |-> "toString"] @@ configToString(sdk.result))]
    /\ UNCHANGED << tokenVars, appVars, codec, http, configCache >>

NextConfig ==
    \/ JsFetchConfiguration
    \/ JavaFetchConfiguration
    \/ JavaIsExpired
    \/ JavaSetMaxAge
    \/ JavaToString

SpecConfig == InitConfig /\ [][NextConfig]_vars

\* C23: fetchConfiguration fails, and yields no configuration, when the
\* connection fails, when the status is not a 2xx one, when the body is not
\* JSON, and when the issuer in the body does not match the origin grammar
C23_FetchFails ==
    (/\ sdk.op = "fetchConfiguration"
     /\ \/ sdk.response.network = "error"
        \/ sdk.response.status \notin 200..299
        \/ ~sdk.response.body.json
        \/ IsNull(sdk.response.body.issuer)
        \/ ~OriginGrammar(Value(sdk.response.body.issuer))) => ~sdk.result.ok

\* C24: the expiry of a fetched configuration is the time of the fetch plus
\* the max-age of the Cache-Control header, or plus one hour without one,
\* and isExpired() is true exactly when the time is after that instant
ExpiryInstant(call) ==
    call.time + 1000 * (IF IsNull(call.response.maxAge) THEN 3600
                        ELSE Value(call.response.maxAge))

C24_Expiry ==
    (sdk.op = "fetchConfiguration" /\ sdk.impl = "java" /\ sdk.result.ok) =>
        /\ sdk.result.expires = ExpiryInstant(sdk)
        /\ ((~IsNull(sdk.later) /\ Value(sdk.later).op = "isExpired") =>
                Value(sdk.later).expired = (Value(sdk.later).now > ExpiryInstant(sdk)))

\* C29: a configuration whose JSON leaves out icon-152px or
\* save-token-async-api-iframe is constructed, and the operations on it,
\* toString() among them, complete
OptionalOmitted(call) ==
    /\ call.response.network = "ok"
    /\ call.response.status = 200
    /\ call.response.body.json
    /\ ~IsNull(call.response.body.issuer)
    /\ OriginGrammar(Value(call.response.body.issuer))
    /\ OriginGrammar(call.origin)
    /\ ~call.response.body.icon \/ ~call.response.body.iframe

C29_OptionalFields ==
    (sdk.op = "fetchConfiguration" /\ OptionalOmitted(sdk)) =>
        /\ sdk.result.ok
        /\ (~IsNull(sdk.later) => Value(sdk.later).ok)


(***************************************************************************)
(* What a failed recovery is answered with (SpecRecover)                   *)
(***************************************************************************)

FailedRequests ==
    {i \in 1..Len(requests) :
        requests[i].pc = "done" /\ requests[i].rendered.template = "recoverAccountFailure"}

\* C30: two recovery requests that fail, for whatever reasons, are given
\* the same response, and no response to a failed recovery carries a stack
\* trace
C30_FailureUniform ==
    /\ \A i, j \in FailedRequests : requests[i].rendered = requests[j].rendered
    /\ \A i \in FailedRequests : IsNull(requests[i].rendered.stackTrace)


(***************************************************************************)
(* The cached recovery-provider configuration of the applications          *)
(* part_001: cachedRecoveryProviderConfig, recoveryProviderConfig();       *)
(* part_002: the static initializer of Main, getRecoveryProviderConfig()   *)
(***************************************************************************)

MaxCalls == 2

\* what the recovery provider may answer: no connection, a configuration, a
\* configuration whose issuer has a trailing slash, an error page
GoodBody == [json |-> TRUE, issuer |-> Some(RpOrigin), icon |-> TRUE, iframe |-> TRUE]
CacheResponses ==
    {NetworkError,
     [network |-> "ok", status |-> 200, maxAge |-> Null, body |-> GoodBody],
     [network |-> "ok", status |-> 200, maxAge |-> Some(60), body |-> GoodBody],
     [network |-> "ok", status |-> 200, maxAge |-> Null,
      body |-> [GoodBody EXCEPT !.issuer = Some(RpOrigin \o << 47 >>)]],
     [network |-> "ok", status |-> 404, maxAge |-> Null, body |-> NotJson]}

NoOutcome == [ok |-> FALSE, err |-> "no fetch"]

\* a call of recoveryProviderConfig() / getRecoveryProviderConfig(), or the
\* fetch of the static initializer: where it is, whether it found the slot
\* empty, what its fetch came to, the slot before and after its fetch was
\* dealt with, and what the caller was given
CacheCall(pc, sawEmpty, given) ==
    [pc |-> pc, sawEmpty |-> sawEmpty, outcome |-> NoOutcome, before |-> Null,
     after |-> Null, given |-> given]

\* a slot written whatever the fetch came to
cacheAfter_AlwaysWrites(cached, outcome) == Some(outcome)

\* the slot after a fetch: the then-callback assigns the configuration, the
\* rejection callback assigns nothing; in Java the assignment is not
\* reached when fetchConfiguration throws
cacheAfter(cached, outcome) == IF outcome.ok THEN Some(outcome) ELSE cached

InitCache ==
    /\ TokenIdle
    /\ AppNotStarted
    /\ codec = NoCodec
    /\ sdk = NoSdkCall
    /\ http = NoExchange
    /\ configCache \in {[NoConfigCache EXCEPT !.impl = "js", !.running = TRUE],
                        [NoConfigCache EXCEPT !.impl = "java"]}

\* recoveryProviderConfig() is called: with a cached configuration the
\* promise resolves to it, without one fetchConfiguration is started
JsRecoveryProviderConfig ==
    /\ configCache.impl = "js"
    /\ Len(configCache.calls) < MaxCalls
    /\ configCache' = [configCache EXCEPT !.calls =
          Append(@, IF IsNull(configCache.slot)
                    THEN CacheCall("fetching", TRUE, Null)
                    ELSE CacheCall("done", FALSE, configCache.slot))]
    /\ UNCHANGED << tokenVars, appVars, codec, sdk, http >>

\* the response of a fetch has arrived: the promise of fetchConfiguration
\* settles
JsFetchSettles ==
    /\ configCache.impl = "js"
    /\ \E i \in 1..Len(configCache.calls), response \in CacheResponses :
        /\ configCache.calls[i].pc = "fetching"
        /\ configCache' = [configCache EXCEPT
              !.calls[i].pc = "settled",
              !.calls[i].outcome = jsFetchConfiguration(RpOrigin, response)]
    /\ UNCHANGED << tokenVars, appVars, codec, sdk, http >>

\* the callback given to then() runs: (config) => { cached = config;
\* resolve(config) } or (e) => { reject(e) }
JsThen ==
    /\ configCache.impl = "js"
    /\ \E i \in 1..Len(configCache.calls) :
        /\ configCache.calls[i].pc = "settled"
        /\ configCache' = [configCache EXCEPT
              !.slot = cacheAfter(@, configCache.calls[i].outcome),
              !.calls[i].pc = "done",
              !.calls[i].before = configCache.slot,
              !.calls[i].after = cacheAfter(configCache.slot, configCache.calls[i].outcome),
              !.calls[i].given = IF configCache.calls[i].outcome.ok
                                 THEN Some(configCache.calls[i].outcome) ELSE Null]
    /\ UNCHANGED << tokenVars, appVars, codec, sdk, http >>

\* the static initializer of Main fetches the configuration; when the fetch
\* throws it calls System.exit and the application never runs
JavaStaticInitializer ==
    /\ configCache.impl = "java"
    /\ ~configCache.running
    /\ configCache.calls = << >>
    /\ \E response \in CacheResponses :
        LET outcome == javaFetchConfiguration(RpOrigin, "RECOVERY_PROVIDER", response, 0)
        IN  configCache' = [configCache EXCEPT
                !.slot = cacheAfter(@, outcome),
                !.running = outcome.ok,
                !.calls = << [CacheCall("done", TRUE, Null) EXCEPT
                                 !.outcome = outcome,
                                 !.after = cacheAfter(configCache.slot, outcome)] >>]
    /\ UNCHANGED << tokenVars, appVars, codec, sdk, http >>

\* a request handler calls Main.getRecoveryProviderConfig()
JavaGetRecoveryProviderConfig ==
    /\ configCache.impl = "java"
    /\ configCache.running
    /\ Len(configCache.calls) < MaxCalls + 1
    /\ configCache' = [configCache EXCEPT !.calls =
          Append(@, CacheCall("done", FALSE, configCache.slot))]
    /\ UNCHANGED << tokenVars, appVars, codec, sdk, http >>

NextCache ==
    \/ JsRecoveryProviderConfig
    \/ JsFetchSettles
    \/ JsThen
    \/ JavaStaticInitializer
    \/ JavaGetRecoveryProviderConfig

SpecCache == InitCache /\ [][NextCache]_vars

\* a configuration that a fetch completed and validated
ValidatedConfig(config) == config.ok /\ OriginGrammar(config.issuer)

CompletedFetches ==
    {configCache.calls[i].outcome : i \in {k \in 1..Len(configCache.calls) :
        configCache.calls[k].pc = "done" /\ configCache.calls[k].sawEmpty}}

\* C25: in every interleaving of the calls that need the configuration the
\* slot is empty or holds a configuration that a fetch completed and
\* validated, a caller is given nothing else, a failed fetch leaves the
\* slot as it was, and a call that finds the slot empty fetches
C25_CacheSlot ==
    /\ IsNull(configCache.slot) \/ (/\ ValidatedConfig(Value(configCache.slot))
                                    /\ Value(configCache.slot) \in CompletedFetches)
    /\ \A i \in 1..Len(configCache.calls) :
        LET call == configCache.calls[i]
        IN  call.pc = "done" =>
                /\ ~IsNull(call.given) => ValidatedConfig(Value(call.given))
                /\ call.sawEmpty => call.outcome # NoOutcome
                /\ ~call.sawEmpty => ~IsNull(call.given)
                /\ (call.sawEmpty /\ ~call.outcome.ok) =>
                        (call.after = call.before /\ IsNull(call.given))

\* a fetch failed and left the slot empty, and a later call fetched again
\* and filled it
C25_Witness ==
    /\ Len(configCache.calls) = 2
    /\ configCache.calls[1].pc = "done"
    /\ configCache.calls[1].sawEmpty
    /\ ~configCache.calls[1].outcome.ok
    /\ configCache.calls[2].pc = "done"
    /\ configCache.calls[2].sawEmpty
    /\ configCache.calls[2].outcome.ok
    /\ configCache.slot = Some(configCache.calls[2].outcome)


(***************************************************************************)
(* The SDK middleware mounted with any options                             *)
(* sdk/js-src/index.js middleware                                          *)
(***************************************************************************)

\* config-max-age: not supplied, null, and some numbers
ConfigMaxAges == {Undefined, JsNull} \cup {JsNumber(n) : n \in {0, 60, 3600, 6000}}

InitMiddleware ==
    /\ TokenIdle
    /\ AppNotStarted
    /\ codec = NoCodec
    /\ SdkIdle

\* the function middleware(options) returns is called with a request: it
\* answers one for CONFIG_PATH and calls next() for any other
Middleware ==
    /\ \E configMaxAge \in ConfigMaxAges, path \in RequestPaths, hostname \in Hostnames :
        LET options == [configMaxAge |-> configMaxAge]
            req == HttpRequest(path, hostname, Null)
        IN  http' = [path |-> path, impl |-> "middleware", options |-> options,
                     request |-> req,
                     response |-> IF path = "config"
                                  THEN HttpResponse(200, middlewareHeaders(options),
                                                    "middleware")
                                  ELSE HttpResponse(0, NoHeaders, "next")]
    /\ UNCHANGED << tokenVars, appVars, codec, sdk, configCache >>

NextMiddleware == Middleware

SpecMiddleware == InitMiddleware /\ [][NextMiddleware]_vars

\* C31: the configuration endpoint answers with a Cache-Control header
\* whose max-age is a number: config-max-age when it is given, 3600 when
\* it is not
C31_ConfigMaxAge ==
    (http.path = "config" /\ http.impl = "middleware") =>
        http.response.headers.cacheControl =
            "public, max-age=" \o ToString(IF http.options.configMaxAge.type = "number"
                                           THEN http.options.configMaxAge.number
                                           ELSE 3600)


(***************************************************************************)
(* The life of a record (SpecApp)                                          *)
(***************************************************************************)

\* C32: a record whose status is invalid is not confirmed by any later
\* token-status callback or save-token-return request
C32_InvalidStaysInvalid ==
    [][\A i \in 1..Len(tokenRecords) :
          tokenRecords[i].status = "invalid" =>
              \A j \in 1..Len(tokenRecords') :
                  tokenRecords'[j].id = tokenRecords[i].id =>
                      tokenRecords'[j].status # "confirmed"]_vars

ConfirmedOf(username) ==
    {i \in 1..Len(tokenRecords) :
        tokenRecords[i].username = username /\ tokenRecords[i].status = "confirmed"}

\* C38: whatever requests were served, each user name has at most one
\* record with status confirmed
C38_OneConfirmedPerUser ==
    \A username \in Usernames : Cardinality(ConfirmedOf(username)) <= 1


(***************************************************************************)
(* Reading back a token of the Java signing constructor (SpecConstruct)    *)
(***************************************************************************)

\* C33: new RecoveryToken(getEncoded()) of a token made by the Java signing
\* constructor succeeds, and every field equals that of the original
C33_JavaReadBack ==
    sdk.op = "readBack" =>
        /\ sdk.result.ok
        /\ TokenFields(sdk.result) = sdk.original


(***************************************************************************)
(* The type of a token object and of its serialization                     *)
(* sdk/js-src/index.js: RecoveryToken.constructor,                         *)
(* CountersignedToken.constructor, CountersignedToken.fromSerialized       *)
(***************************************************************************)

\* what CountersignedToken.fromSerialized returns when it does not throw:
\* the object made by new CountersignedToken from the fields it read
fromSerializedReturn(serialized, issuer, audience, allowedClockSkew, binding, publicKeys, now) ==
    LET fields == deserialize(serialized)
    IN  IF fromSerialized(serialized, issuer, audience, allowedClockSkew, binding,
                          publicKeys, now).ok
        THEN Some(CountersignedTokenNew(fields.id, fields.options, fields.issuer,
                                        fields.audience, fields.issuedTime, fields.data,
                                        fields.binding, fields.signature, now))
        ELSE Null

\* a token object: its type field and its encoded property
TokenObject(token) ==
    IF IsNull(token) \/ ~Value(token).ok THEN Null
    ELSE Some([type |-> Value(token).type, encoded |-> Value(token).encoded])

InitType ==
    /\ TokenIdle
    /\ AppNotStarted
    /\ codec = NoCodec
    /\ SdkIdle

\* new RecoveryToken(...) with a private key
JsNewRecoveryToken ==
    /\ sdk.op = "none"
    /\ \E privateKey \in PrivateKeys, data \in CodecData, binding \in Bindings :
        sdk' = [op |-> "new RecoveryToken", serialized |-> << >>,
                token |-> TokenObject(Some(
                    RecoveryTokenNew(privateKey, TokenId, STATUS_REQUESTED_FLAG, ApOrigin,
                                     RpOrigin, toISOString(Now), Some(data), Some(binding),
                                     << >>, Now)))]
    /\ UNCHANGED << tokenVars, appVars, codec, http, configCache >>

\* new CountersignedToken(...) with a signature
JsNewCountersignedToken ==
    /\ sdk.op = "none"
    /\ \E data \in CodecData, binding \in Bindings,
          signature \in {GivenSignature} \cup MalformedSignatures :
        sdk' = [op |-> "new CountersignedToken", serialized |-> << >>,
                token |-> TokenObject(Some(
                    CountersignedTokenNew(TokenId, STATUS_REQUESTED_FLAG, RpOrigin, ApOrigin,
                                          toISOString(Now), data, binding, signature, Now)))]
    /\ UNCHANGED << tokenVars, appVars, codec, http, configCache >>

\* CountersignedToken.fromSerialized on a token of either type, signed by
\* some key and issued at some time
JsFromSerialized ==
    /\ sdk.op = "none"
    /\ \E type \in {TYPE_RECOVERY_TOKEN, TYPE_COUNTERSIGNED_TOKEN}, t \in IssueTimes,
          privateKey \in PrivateKeys, publicKeys \in KeyLists, binding \in Bindings,
          data \in CodecData :
        LET raw == serialize(VERSION, type, TokenId, STATUS_REQUESTED_FLAG, RpOrigin,
                             ApOrigin, nowISO8601(t), data, binding)
            serialized == raw \o EcdsaSign(privateKey, raw)
        IN  sdk' = [op |-> "fromSerialized", serialized |-> serialized,
                    token |-> TokenObject(
                        fromSerializedReturn(serialized, RpOrigin, ApOrigin, AllowedClockSkew,
                                             Some(binding), publicKeys, Now))]
    /\ UNCHANGED << tokenVars, appVars, codec, http, configCache >>

NextType ==
    \/ JsNewRecoveryToken
    \/ JsNewCountersignedToken
    \/ JsFromSerialized

SpecType == InitType /\ [][NextType]_vars

\* C34: the type field of a token object is the type byte of its own
\* serialization, and the token CountersignedToken.fromSerialized returns
\* has type 0x01 and the serialization it was parsed from as its encoded
\* value
C34_TypeMatchesEncoding ==
    (sdk.op \in {"new RecoveryToken", "new CountersignedToken", "fromSerialized"}
        /\ ~IsNull(sdk.token)) =>
        /\ Value(sdk.token).type = ReadUInt8(Value(sdk.token).encoded, 1)
        /\ sdk.op = "fromSerialized" =>
                /\ Value(sdk.token).type = TYPE_COUNTERSIGNED_TOKEN
                /\ Value(sdk.token).encoded = sdk.serialized


(***************************************************************************)
(* The issuer read ahead of the parse (SpecCodec)                          *)
(***************************************************************************)

ClockSkews == {0, 1, AllowedClockSkew, 2147483, 2147484, 4294971, 2147483647}

\* distances of the issued time from now, in seconds, either way
SkewDistances == {0, 1, 3, 4, AllowedClockSkew, AllowedClockSkew + 1, 2 * AllowedClockSkew}
SkewIssueTimes == {Now - d : d \in SkewDistances} \cup {Now + d : d \in SkewDistances}

InitSkew ==
    /\ TokenIdle
    /\ AppNotStarted
    /\ codec = NoCodec
    /\ SdkIdle

\* new CountersignedRecoveryToken(encoded, issuer, audience, keys,
\* allowedClockSkewSec, binding) on a correctly countersigned token of the
\* expected issuer, audience and binding, issued at some time
JavaNewCountersignedRecoveryToken ==
    /\ sdk.op = "none"
    /\ \E allowedClockSkewSec \in ClockSkews, t \in SkewIssueTimes,
          privateKey \in PrivateKeys, binding \in Bindings :
        LET raw == serialize(VERSION, TYPE_COUNTERSIGNED_TOKEN, TokenId,
                             STATUS_REQUESTED_FLAG, RpOrigin, ApOrigin, nowISO8601(t),
                             InnerData, binding)
            encoded == raw \o EcdsaSign(privateKey, raw)
        IN  sdk' = [op |-> "new CountersignedRecoveryToken", encoded |-> encoded,
                    keys |-> << PubOf(privateKey) >>, binding |-> binding,
                    issuedTime |-> t, now |-> Now,
                    allowedClockSkewSec |-> allowedClockSkewSec,
                    result |-> CountersignedRecoveryToken(
                                   encoded, RpOrigin, ApOrigin, << PubOf(privateKey) >>,
                                   allowedClockSkewSec, Some(binding), Now),
                    larger |-> allowedClockSkewSec, again |-> NoResult]
    /\ UNCHANGED << tokenVars, appVars, codec, http, configCache >>

\* the same token once more, at the same time, with a larger allowed skew
JavaNewWithLargerSkew ==
    /\ sdk.op = "new CountersignedRecoveryToken"
    /\ \E larger \in ClockSkews :
        /\ larger > sdk.allowedClockSkewSec
        /\ sdk' = [sdk EXCEPT
                      !.op = "larger skew",
                      !.larger = larger,
                      !.again = CountersignedRecoveryToken(
                                    sdk.encoded, RpOrigin, ApOrigin, sdk.keys, larger,
                                    Some(sdk.binding), sdk.now)]
    /\ UNCHANGED << tokenVars, appVars, codec, http, configCache >>

NextSkew ==
    \/ JavaNewCountersignedRecoveryToken
    \/ JavaNewWithLargerSkew

SpecSkew == InitSkew /\ [][NextSkew]_vars

\* |issuedTime - now| <= allowedClockSkewSec * 1000 in milliseconds, computed
\* without wraparound: both sides are whole seconds times 1000
WithinSkew(issuedTime, now, allowedClockSkewSec) ==
    Abs(issuedTime - now) <= allowedClockSkewSec

\* C36: for every allowedClockSkewSec in 0..2^31-1 the Java validation
\* accepts the issued time exactly when |issuedTime - now| is at most
\* allowedClockSkewSec * 1000 milliseconds computed without 32-bit
\* wraparound, and a token accepted with one allowed skew is accepted with
\* every larger one
C36_SkewWindow ==
    /\ sdk.op \in {"new CountersignedRecoveryToken", "larger skew"} =>
          (sdk.result.ok <=> WithinSkew(sdk.issuedTime, sdk.now, sdk.allowedClockSkewSec))
    /\ (sdk.op = "larger skew" /\ sdk.result.ok) => sdk.again.ok


(***************************************************************************)
(* How often the JavaScript recovery handler answers (SpecRender)          *)
(* app.post(path.web.recoverAccountReturn, ...)                            *)
(***************************************************************************)

\* the rejection recoveryProviderConfig() hands to the second callback
ConfigRejection == "fetchConfiguration rejected"

\* the whole handler for one request: the calls of res.render in order, and
\* whether extractIssuer threw out of the handler. errorFunction renders on
\* every call and returns, so the handler goes on after it; the success page
\* is rendered when the token validated and errorFlag was never set
jsRecoverAccountReturn(token, expectedUsername, records, cache, configFetched) ==
    LET replayed == token \in cache
        noToken == IF token = << >> THEN << "No token." >> ELSE << >>
        replay == IF replayed THEN << "Countersigned token replay detected!" >> ELSE << >>
        errors == jsRecoverErrors(token, expectedUsername, records, replayed)
        Renders(messages) == [i \in 1..Len(messages) |-> jsRender(messages[i])]
    IN  IF IsNull(extractIssuer(token))
        THEN [renders |-> Renders(noToken \o replay), threw |-> TRUE]
        ELSE IF ~configFetched
        THEN [renders |-> Renders(noToken \o replay \o << ConfigRejection >>),
              threw |-> FALSE]
        ELSE [renders |-> Renders(IF Len(errors) = 0 THEN << "success" >>
                                  ELSE noToken \o errors),
              threw |-> FALSE]

\* the tokens posted: those of the recovery handler's requests, one of
\* somebody else's origin signed with the recovery provider's key, the empty
\* string, and a token cut off inside the length of its issuer
RenderTokens ==
    SubmittedTokens("js")
    \cup {CountersignedFor(FirstIssued("js").token, OtherOrigin, CountersignKey),
          << >>,
          SubSeq(CountersignedFor(FirstIssued("js").token, RpOrigin, CountersignKey), 1, 20)}

\* the store as at recovery time, and a replay cache that is empty or holds
\* every token from earlier requests
InitRender ==
    /\ TokenIdle
    /\ codec = NoCodec
    /\ SdkIdle
    /\ impl = "js"
    /\ tokenRecords \in {<< >>} \cup
          {<< [FirstIssued(impl).record EXCEPT !.status = status] >> :
              status \in {"confirmed", "invalid"}}
    /\ issuedCount = Len(tokenRecords)
    /\ lastCall = NoCall
    /\ pending = NoPending
    /\ replayCache \in {{}, RenderTokens}
    /\ monitor = 0
    /\ requests = << >>

\* one POST to path.web.recoverAccountReturn, from its arrival to the end of
\* the callback of recoveryProviderConfig().then
JsRecoverAccountReturn ==
    /\ sdk.op = "none"
    /\ \E token \in RenderTokens, state \in StateValues, configFetched \in BOOLEAN :
        /\ sdk' = [op |-> "recoverAccountReturn", token |-> token, state |-> state,
                   replayed |-> token \in replayCache, configFetched |-> configFetched,
                   handled |-> jsRecoverAccountReturn(token, state, tokenRecords,
                                                      replayCache, configFetched)]
        /\ replayCache' = replayCache \cup {token}
    /\ UNCHANGED << impl, tokenRecords, issuedCount, lastCall, pending, monitor, requests,
                    tokenVars, codec, http, configCache >>

NextRender == JsRecoverAccountReturn

SpecRender == InitRender /\ [][NextRender]_vars

\* the responses of one request: the pages the handler rendered, or, when an
\* exception left the handler before it rendered anything, the one error
\* page of the framework
ResponsesOf(handled) ==
    IF handled.threw /\ Len(handled.renders) = 0 THEN 1 ELSE Len(handled.renders)

\* C37: each request to the Node recover-account-return handler produces
\* exactly one response, whichever failures occur in it
C37_OneResponse ==
    sdk.op = "recoverAccountReturn" => ResponsesOf(sdk.handled) = 1

=============================================================================
